---------------------------- MODULE Spec2Model ----------------------------
(***************************************************************************)
(* API coverage analysis engine (script/python/api_coverage_report.py).    *)
(*                                                                         *)
(* A CoverageAnalyzer is constructed over an operation list and a tag      *)
(* mapping; analyze() classifies every operation and aggregates the        *)
(* counts per HTTP method and per functional tag; the ReportFormatter      *)
(* renders the report in one of four formats.                              *)
(*                                                                         *)
(* Representation choices:                                                 *)
(*  - a Python dict whose iteration order matters (coverage_by_tag,        *)
(*    coverage_by_method) is a sequence of entries in insertion order;     *)
(*  - the tag mapping (operation_tags), read only by key lookup, is a      *)
(*    function from its key set to the list of files;                      *)
(*  - a float percentage is the exact fraction <<num, den>> in lowest      *)
(*    terms (den > 0).  For the totals reachable here the double computed  *)
(*    by covered / total * 100 orders, equals and crosses the thresholds   *)
(*    60 and 80 exactly as the fraction does;                              *)
(*  - a rendered document is the sequence of its data-bearing lines; the   *)
(*    fixed banners, legends and style sheets are left out.                *)
(***************************************************************************)
EXTENDS Integers, Sequences, FiniteSets, TLC

\* Longest operation list handed to the analyzer.
MaxOps == 3

(***************************************************************************)
(* Inputs                                                                  *)
(***************************************************************************)

\* EndpointInfo(operation_id, path, method, summary, tags)
EndpointInfo(id, p, m, t) ==
  [operation_id |-> id, path |-> p, method |-> m, summary |-> "", tags |-> t]

\* The operations the lists are drawn from: two identifiers, each declared
\* with one tag, with a repeated tag, and once more with no tag or two tags.
EndpointInfos ==
  { EndpointInfo("getX",  "/x", "GET",  <<"x">>),
    EndpointInfo("postX", "/x", "POST", <<"x">>),
    EndpointInfo("getX",  "/y", "GET",  <<"x", "x">>),
    EndpointInfo("postX", "/y", "POST", <<"x", "x">>),
    EndpointInfo("getX",  "/z", "POST", <<>>),
    EndpointInfo("postX", "/z", "GET",  <<"y", "x">>) }

Methods == {"GET", "POST", "PUT", "PATCH", "DELETE"}
Tags == {"x", "y"}

RECURSIVE SeqsUpTo(_, _)
SeqsUpTo(S, n) ==
  IF n = 0 THEN {<<>>}
  ELSE LET shorter == SeqsUpTo(S, n - 1)
       IN  shorter \cup {Append(s, e) : s \in {x \in shorter : Len(x) = n - 1}, e \in S}

OperationLists == SeqsUpTo(EndpointInfos, MaxOps)

\* The files that reference each identifier; "other" names no declared operation.
FilesOf ==
  [ getX  |-> <<"test/api/platform/features/f1.feature">>,
    postX |-> <<"test/api/platform/features/f1.feature",
                "test/api/platform/features/f2.feature">>,
    other |-> <<"test/api/platform/features/f2.feature",
                "test/api/platform/features/f2.feature">> ]

TagMappings ==
  { [k \in K |-> FilesOf[k]] : K \in SUBSET {"getX", "postX", "other"} }

(***************************************************************************)
(* State                                                                   *)
(***************************************************************************)

VARIABLES
  operations,       \* CoverageAnalyzer.operations
  operation_tags,   \* CoverageAnalyzer.operation_tags
  pc,               \* "constructed" | "analyzed" | "reanalyzed" | "raised"
  report,           \* the CoverageReport of the latest analyze()
  previous_report,  \* the CoverageReport of the call before it
  renders,          \* "none" | "once" | "twice": calls of the render function
  format,           \* the format rendered
  output,           \* the document of the latest render
  previous_output,  \* the document of the render before it
  clock,            \* what datetime.now() returns
  schema,           \* the schema file: [file, document]
  features_dir,     \* the *.feature files under the scan root, in rglob order
  args,             \* main's parsed arguments: [format, save, output]
  step,             \* main's position
  exit_code,        \* the process exit code, "running" until main ends
  stdout,           \* the documents printed on stdout, in order
  written,          \* the files written, in order: [path, document]
  created,          \* the directories made
  argv              \* the command line: [format, save, output], "absent" for no --format

\* What the analyzer and the formatter leave alone.
mainVars == <<schema, features_dir, args, step, exit_code, stdout, written, created, argv>>

vars == <<operations, operation_tags, pc, report, previous_report,
          renders, format, output, previous_output, clock,
          schema, features_dir, args, step, exit_code, stdout, written, created, argv>>

(***************************************************************************)
(* Arithmetic of the percentages                                           *)
(***************************************************************************)

RECURSIVE GCD(_, _)
GCD(a, b) == IF b = 0 THEN a ELSE GCD(b, a % b)

\* The fraction n/d (n >= 0, d > 0) in lowest terms.
Frac(n, d) == LET g == GCD(n, d) IN <<n \div g, d \div g>>

\* The value a raised ZeroDivisionError stands for.
ZeroDivisionError == <<0, 0>>

\* Python's a / b on non-negative ints.
TrueDiv(a, b) == IF b = 0 THEN ZeroDivisionError ELSE Frac(a, b)

\* Python's q * k for an int k > 0; an exception raised while evaluating q propagates.
Times(q, k) == IF q = ZeroDivisionError THEN ZeroDivisionError ELSE Frac(q[1] * k, q[2])

\* q >= k for an int k.
AtLeast(q, k) == q[1] >= k * q[2]

Zero == Frac(0, 1)

(***************************************************************************)
(* CoverageAnalyzer                                                        *)
(***************************************************************************)

\* `op in ops` on a list of dataclass instances: equality is field by field.
In(op, ops) == \E j \in DOMAIN ops : ops[j] = op

\* Mutant: the GREEN threshold compared strictly.
StatusStrictGreen(percentage) ==
  IF percentage[1] > 80 * percentage[2] THEN "GREEN"
  ELSE IF AtLeast(percentage, 60) THEN "YELLOW"
  ELSE "RED"

\* _get_status_emoji
_get_status_emoji(percentage) ==
  IF AtLeast(percentage, 80) THEN "GREEN"
  ELSE IF AtLeast(percentage, 60) THEN "YELLOW"
  ELSE "RED"

\* (stats['covered'] / stats['total'] * 100) if stats['total'] > 0 else 0
Percentage(covered, total) ==
  IF total > 0 THEN Times(TrueDiv(covered, total), 100) ELSE Zero

\* Mutant: a bucket's total counts its covered operations only.
CountCovered(stats, key, is_covered) ==
  LET c == IF is_covered THEN 1 ELSE 0
  IN  IF \E i \in DOMAIN stats : stats[i].key = key
      THEN [i \in DOMAIN stats |->
              IF stats[i].key = key
              THEN [stats[i] EXCEPT !.total = @ + c, !.covered = @ + c]
              ELSE stats[i]]
      ELSE Append(stats, [key |-> key, total |-> c, covered |-> c])

\* stats[key]['total'] += 1, and ['covered'] += 1 when is_covered, on a
\* defaultdict: a key seen for the first time is inserted at the end.
Count(stats, key, is_covered) ==
  LET c == IF is_covered THEN 1 ELSE 0
  IN  IF \E i \in DOMAIN stats : stats[i].key = key
      THEN [i \in DOMAIN stats |->
              IF stats[i].key = key
              THEN [stats[i] EXCEPT !.total = @ + 1, !.covered = @ + c]
              ELSE stats[i]]
      ELSE Append(stats, [key |-> key, total |-> 1, covered |-> c])

\* The closing loop of both aggregations: percentage and status per bucket.
WithPercentages(stats) ==
  [i \in DOMAIN stats |->
     LET pct == Percentage(stats[i].covered, stats[i].total)
     IN  [key |-> stats[i].key, total |-> stats[i].total,
          covered |-> stats[i].covered, percentage |-> pct,
          status |-> _get_status_emoji(pct)]]

\* Mutant: every tag counted once per operation, as if over set(op.tags).
RECURSIVE CountTagsOnce(_, _, _, _)
CountTagsOnce(stats, tags, j, is_covered) ==
  IF j > Len(tags) THEN stats
  ELSE IF \E k \in 1..(j - 1) : tags[k] = tags[j]
       THEN CountTagsOnce(stats, tags, j + 1, is_covered)
       ELSE CountTagsOnce(Count(stats, tags[j], is_covered), tags, j + 1, is_covered)

\* for tag in op.tags: count it
RECURSIVE CountTags(_, _, _, _)
CountTags(stats, tags, j, is_covered) ==
  IF j > Len(tags) THEN stats
  ELSE CountTags(Count(stats, tags[j], is_covered), tags, j + 1, is_covered)

\* for op in covered + uncovered: is_covered = op in covered; count its tags
RECURSIVE CountOpsByTag(_, _, _, _)
CountOpsByTag(stats, ops, i, covered) ==
  IF i > Len(ops) THEN stats
  ELSE CountOpsByTag(CountTags(stats, ops[i].tags, 1, In(ops[i], covered)),
                     ops, i + 1, covered)

\* Mutant: only the covered operations are walked.
ByTagCoveredOnly(covered, uncovered) ==
  WithPercentages(CountOpsByTag(<<>>, covered, 1, covered))

_calculate_coverage_by_tag(covered, uncovered) ==
  WithPercentages(CountOpsByTag(<<>>, covered \o uncovered, 1, covered))

\* for op in ops: count its method
RECURSIVE CountOpsByMethod(_, _, _, _)
CountOpsByMethod(stats, ops, i, is_covered) ==
  IF i > Len(ops) THEN stats
  ELSE CountOpsByMethod(Count(stats, ops[i].method, is_covered), ops, i + 1, is_covered)

\* Mutant: the second loop repeats the first one's body.
ByMethodAllCovered(covered, uncovered) ==
  WithPercentages(
    CountOpsByMethod(CountOpsByMethod(<<>>, covered, 1, TRUE), uncovered, 1, TRUE))

_calculate_coverage_by_method(covered, uncovered) ==
  WithPercentages(
    CountOpsByMethod(CountOpsByMethod(<<>>, covered, 1, TRUE), uncovered, 1, FALSE))

\* Mutant: the test is the truth of the file list, as operation_tags.get(id).
IsTaggedInFiles(op, op_tags) ==
  op.operation_id \in DOMAIN op_tags /\ op_tags[op.operation_id] # <<>>

\* Mutant: the membership test inverted.
IsNotTagged(op, op_tags) == op.operation_id \notin DOMAIN op_tags

\* The classifying loop: covered_ops / uncovered_ops by key membership.
IsTagged(op, op_tags) == op.operation_id \in DOMAIN op_tags

\* Mutant: the loop stops one operation early.
RECURSIVE ClassifyButLast(_, _, _, _)
ClassifyButLast(ops, i, op_tags, want) ==
  IF i >= Len(ops) THEN <<>>
  ELSE LET rest == ClassifyButLast(ops, i + 1, op_tags, want)
       IN  IF IsTagged(ops[i], op_tags) = want THEN <<ops[i]>> \o rest ELSE rest

\* Mutant: each operation is inserted at the front of its list.
RECURSIVE ClassifyPrepend(_, _, _, _)
ClassifyPrepend(ops, i, op_tags, want) ==
  IF i > Len(ops) THEN <<>>
  ELSE LET rest == ClassifyPrepend(ops, i + 1, op_tags, want)
       IN  IF IsTagged(ops[i], op_tags) = want THEN rest \o <<ops[i]>> ELSE rest

RECURSIVE Classify(_, _, _, _)
Classify(ops, i, op_tags, want) ==
  IF i > Len(ops) THEN <<>>
  ELSE LET rest == Classify(ops, i + 1, op_tags, want)
       IN  IF IsTagged(ops[i], op_tags) = want THEN <<ops[i]>> \o rest ELSE rest

\* Mutant: the ratio is not scaled to a percentage.
CoveragePctUnscaled(covered, total) ==
  IF total > 0 THEN TrueDiv(covered, total) ELSE Zero

\* Mutant: the zero-total guard is missing.
CoveragePctUnguarded(covered, total) == Times(TrueDiv(covered, total), 100)

\* coverage_pct = (covered / total * 100) if total > 0 else 0
CoveragePct(covered, total) ==
  IF total > 0 THEN Times(TrueDiv(covered, total), 100) ELSE Zero

analyze(ops, op_tags) ==
  LET covered_ops   == Classify(ops, 1, op_tags, TRUE)
      uncovered_ops == Classify(ops, 1, op_tags, FALSE)
      total   == Len(ops)
      covered == Len(covered_ops)
  IN  [ total_endpoints      |-> total,
        covered_endpoints    |-> covered,
        uncovered_endpoints  |-> total - covered,
        coverage_percentage  |-> CoveragePct(covered, total),
        covered_operations   |-> covered_ops,
        uncovered_operations |-> uncovered_ops,
        coverage_by_tag      |-> _calculate_coverage_by_tag(covered_ops, uncovered_ops),
        coverage_by_method   |-> _calculate_coverage_by_method(covered_ops, uncovered_ops) ]

\* An exception raised inside analyze leaves no report.
Raised(r) ==
  \/ r.coverage_percentage = ZeroDivisionError
  \/ \E i \in DOMAIN r.coverage_by_tag : r.coverage_by_tag[i].percentage = ZeroDivisionError
  \/ \E i \in DOMAIN r.coverage_by_method : r.coverage_by_method[i].percentage = ZeroDivisionError

\* The report slot before analyze has returned.
NoReport ==
  [ total_endpoints |-> 0, covered_endpoints |-> 0, uncovered_endpoints |-> 0,
    coverage_percentage |-> Zero, covered_operations |-> <<>>,
    uncovered_operations |-> <<>>, coverage_by_tag |-> <<>>,
    coverage_by_method |-> <<>> ]

(***************************************************************************)
(* ReportFormatter                                                         *)
(***************************************************************************)

\* The strings the reports sort, in Python's ascending str order.
StrOrder == <<"", "DELETE", "GET", "PATCH", "POST", "PUT", "getX", "other", "postX", "x", "y">>
StrRank(str) == CHOOSE i \in DOMAIN StrOrder : StrOrder[i] = str
StrLess(a, b) == StrRank(a) < StrRank(b)

\* Mutant: the slice keeps every item.
TakeAll(items, n) == items

\* items[:n]
Take(items, n) == SubSeq(items, 1, IF Len(items) < n THEN Len(items) ELSE n)

\* round() of n/d to an integer, ties to even.
RoundHalfEven(n, d) ==
  LET q == n \div d
      r == n % d
  IN  IF 2 * r < d THEN q
      ELSE IF 2 * r > d THEN q + 1
      ELSE IF q % 2 = 0 THEN q ELSE q + 1

\* f"{x:.2f}" and round(x, 2): x in hundredths.
Fixed2(x) == RoundHalfEven(x[1] * 100, x[2])
\* f"{x:.1f}": x in tenths.
Fixed1(x) == RoundHalfEven(x[1] * 10, x[2])
\* Mutant: the integer above x.
RoundedUp(x) == IF x[1] % x[2] = 0 THEN x[1] \div x[2] ELSE (x[1] \div x[2]) + 1
\* round(x)
Rounded(x) == RoundHalfEven(x[1], x[2])

\* key=lambda x: x.tags[0] if x.tags else ''
FirstTag(op) == IF op.tags # <<>> THEN op.tags[1] ELSE ""

\* Mutant: the tag table ordered by percentage ascending.
BeforeAscending(key, a, b) ==
  CASE key = "method" -> StrLess(a.key, b.key)
    [] key = "percentage desc" ->
         a.percentage[1] * b.percentage[2] < b.percentage[1] * a.percentage[2]
    [] key = "operation_id" -> StrLess(a.operation_id, b.operation_id)
    [] key = "first tag, operation_id" ->
         \/ StrLess(FirstTag(a), FirstTag(b))
         \/ FirstTag(a) = FirstTag(b) /\ StrLess(a.operation_id, b.operation_id)

\* The strict order a sort key puts on two items:
\*   "method"           sorted(report.coverage_by_method.keys())
\*   "percentage desc"  sorted(report.coverage_by_tag.items(), key=percentage, reverse=True)
\*   "operation_id"     key=lambda x: x.operation_id
\*   "first tag, operation_id"
\*                      key=lambda x: (x.tags[0] if x.tags else '', x.operation_id)
Before(key, a, b) ==
  CASE key = "method" -> StrLess(a.key, b.key)
    [] key = "percentage desc" ->
         a.percentage[1] * b.percentage[2] > b.percentage[1] * a.percentage[2]
    [] key = "operation_id" -> StrLess(a.operation_id, b.operation_id)
    [] key = "first tag, operation_id" ->
         \/ StrLess(FirstTag(a), FirstTag(b))
         \/ FirstTag(a) = FirstTag(b) /\ StrLess(a.operation_id, b.operation_id)

\* Mutant: the items are listed as the report holds them.
Unsorted(items, key) == items

\* sorted(items, key=...): items with equal keys keep their order (the sort is
\* stable, also under reverse=True).
Sorted(items, key) ==
  LET n == Len(items)
      Pos(i) == 1 + Cardinality({j \in 1..n : Before(key, items[j], items[i])})
                  + Cardinality({j \in 1..(i - 1) :
                                   /\ ~Before(key, items[j], items[i])
                                   /\ ~Before(key, items[i], items[j])})
  IN  [p \in 1..n |-> items[CHOOSE i \in 1..n : Pos(i) = p]]

\* Mutant: the lookup always takes its default.
FilesDefault(op_tags, op) == <<>>

\* operation_tags.get(op.operation_id, [])
FilesFor(op_tags, op) ==
  IF op.operation_id \in DOMAIN op_tags THEN op_tags[op.operation_id] ELSE <<>>

RECURSIVE Flatten(_, _)
Flatten(blocks, i) == IF i > Len(blocks) THEN <<>> ELSE blocks[i] \o Flatten(blocks, i + 1)

\* One "status key covered/total (pct%)" row of the console tables.
ConsoleRow(table, b) ==
  [line |-> table, status |-> b.status, key |-> b.key,
   covered |-> b.covered, total |-> b.total, pct1 |-> Fixed1(b.percentage)]

format_console(rep, op_tags) ==
  LET methods   == Sorted(rep.coverage_by_method, "method")
      tags      == Sorted(rep.coverage_by_tag, "percentage desc")
      uncovered == Sorted(rep.uncovered_operations, "first tag, operation_id")
      covered   == Take(Sorted(rep.covered_operations, "operation_id"), 20)
      Entry(op) ==
        <<[line |-> "covered", operation_id |-> op.operation_id,
           method |-> op.method, path |-> op.path]>>
        \o [k \in DOMAIN Take(FilesFor(op_tags, op), 3) |->
              [line |-> "file", file |-> FilesFor(op_tags, op)[k]]]
  IN  << [line |-> "Total Endpoints", n |-> rep.total_endpoints],
         [line |-> "Covered Endpoints", n |-> rep.covered_endpoints],
         [line |-> "Uncovered Endpoints", n |-> rep.uncovered_endpoints],
         [line |-> "Coverage", pct2 |-> Fixed2(rep.coverage_percentage)] >>
      \o (IF rep.coverage_by_method # <<>>
          THEN <<[line |-> "COVERAGE BY HTTP METHOD"]>>
               \o [i \in DOMAIN methods |-> ConsoleRow("method", methods[i])]
          ELSE <<>>)
      \o (IF rep.coverage_by_tag # <<>>
          THEN <<[line |-> "COVERAGE BY API TAG"]>>
               \o [i \in DOMAIN tags |-> ConsoleRow("tag", tags[i])]
          ELSE <<>>)
      \o (IF rep.uncovered_operations # <<>>
          THEN <<[line |-> "UNCOVERED ENDPOINTS"]>>
               \o [i \in DOMAIN uncovered |->
                     [line |-> "uncovered",
                      tag_prefix |-> FirstTag(uncovered[i]),
                      operation_id |-> uncovered[i].operation_id,
                      method |-> uncovered[i].method, path |-> uncovered[i].path]]
          ELSE <<>>)
      \o <<[line |-> "COVERED ENDPOINTS", n |-> Len(rep.covered_operations)]>>
      \o (IF rep.covered_operations # <<>>
          THEN Flatten([i \in DOMAIN covered |-> Entry(covered[i])], 1)
               \o (IF Len(rep.covered_operations) > 20
                   THEN <<[line |-> "and more", n |-> Len(rep.covered_operations) - 20]>>
                   ELSE <<>>)
          ELSE <<>>)

\* asdict(op): the fields of the dataclass, in declaration order.
asdict(op) ==
  [operation_id |-> op.operation_id, path |-> op.path, method |-> op.method,
   summary |-> op.summary, tags |-> op.tags]

\* Mutant: the uncovered operations are left out of the data.
JsonDataWithoutUncovered(rep, op_tags) ==
  [ summary |->
      [ total_endpoints     |-> rep.total_endpoints,
        covered_endpoints   |-> rep.covered_endpoints,
        uncovered_endpoints |-> rep.uncovered_endpoints,
        coverage_percentage |-> Fixed2(rep.coverage_percentage) ],
    coverage_by_method |-> rep.coverage_by_method,
    coverage_by_tag    |-> rep.coverage_by_tag,
    covered_operations |->
      [i \in DOMAIN rep.covered_operations |->
         asdict(rep.covered_operations[i])
           @@ [tested_in_files |-> FilesFor(op_tags, rep.covered_operations[i])]],
    uncovered_operations |-> <<>> ]

\* The dict format_json builds before serialising it.
JsonData(rep, op_tags) ==
  [ summary |->
      [ total_endpoints     |-> rep.total_endpoints,
        covered_endpoints   |-> rep.covered_endpoints,
        uncovered_endpoints |-> rep.uncovered_endpoints,
        coverage_percentage |-> Fixed2(rep.coverage_percentage) ],
    coverage_by_method |-> rep.coverage_by_method,
    coverage_by_tag    |-> rep.coverage_by_tag,
    covered_operations |->
      [i \in DOMAIN rep.covered_operations |->
         asdict(rep.covered_operations[i])
           @@ [tested_in_files |-> FilesFor(op_tags, rep.covered_operations[i])]],
    uncovered_operations |->
      [i \in DOMAIN rep.uncovered_operations |-> asdict(rep.uncovered_operations[i])] ]

DigitChars == <<"0", "1", "2", "3", "4", "5", "6", "7", "8", "9">>

\* str(n) of a natural number: its decimal digits.
RECURSIVE Digits(_)
Digits(n) ==
  IF n < 10 THEN <<DigitChars[n + 1]>>
  ELSE Digits(n \div 10) \o <<DigitChars[(n % 10) + 1]>>

\* A JSON text is the tree of its tokens: an object is the sequence of its
\* members, an array the sequence of its items, a number its characters.
JsonInt(n) == [number |-> Digits(n)]

\* repr of a float with at most two decimals, h being its hundredths:
\* 3333 is 33.33, 5000 is 50.0, 3330 is 33.3.
JsonFixed2(h) ==
  [number |-> Digits(h \div 100) \o <<".">>
                \o (IF h % 10 = 0 THEN <<DigitChars[((h % 100) \div 10) + 1]>>
                    ELSE <<DigitChars[((h % 100) \div 10) + 1], DigitChars[(h % 10) + 1]>>)]

\* repr of an unrounded float: the shortest decimal that reads back as the
\* same double, kept here as the double itself.
JsonFloat(x) == [float |-> x]

JsonString(str) == [string |-> str]

JsonArray(items) == [array |-> items]

JsonMember(k, v) == [key |-> k, value |-> v]

JsonObject(members) == [object |-> members]

JsonStrings(strs) == JsonArray([i \in DOMAIN strs |-> JsonString(strs[i])])

\* One entry of coverage_by_method or coverage_by_tag.
JsonBucket(b) ==
  JsonMember(b.key,
    JsonObject(<< JsonMember("total", JsonInt(b.total)),
                  JsonMember("covered", JsonInt(b.covered)),
                  JsonMember("percentage", JsonFloat(b.percentage)),
                  JsonMember("status", JsonString(b.status)) >>))

JsonOperation(d) ==
  JsonObject(<< JsonMember("operation_id", JsonString(d.operation_id)),
                JsonMember("path", JsonString(d.path)),
                JsonMember("method", JsonString(d.method)),
                JsonMember("summary", JsonString(d.summary)),
                JsonMember("tags", JsonStrings(d.tags)) >>
             \o (IF "tested_in_files" \in DOMAIN d
                 THEN <<JsonMember("tested_in_files", JsonStrings(d.tested_in_files))>>
                 ELSE <<>>))

\* json.dumps(data, indent=2, ensure_ascii=False)
json_dumps(data) ==
  JsonObject(<<
    JsonMember("summary",
      JsonObject(<< JsonMember("total_endpoints", JsonInt(data.summary.total_endpoints)),
                    JsonMember("covered_endpoints", JsonInt(data.summary.covered_endpoints)),
                    JsonMember("uncovered_endpoints", JsonInt(data.summary.uncovered_endpoints)),
                    JsonMember("coverage_percentage",
                               JsonFixed2(data.summary.coverage_percentage)) >>)),
    JsonMember("coverage_by_method",
      JsonObject([i \in DOMAIN data.coverage_by_method |->
                    JsonBucket(data.coverage_by_method[i])])),
    JsonMember("coverage_by_tag",
      JsonObject([i \in DOMAIN data.coverage_by_tag |->
                    JsonBucket(data.coverage_by_tag[i])])),
    JsonMember("covered_operations",
      JsonArray([i \in DOMAIN data.covered_operations |->
                   JsonOperation(data.covered_operations[i])])),
    JsonMember("uncovered_operations",
      JsonArray([i \in DOMAIN data.uncovered_operations |->
                   JsonOperation(data.uncovered_operations[i])])) >>)

\* Mutant: the operation lists are cut to their first two entries and every
\* file list to its first file.
JsonCapped(rep, op_tags) ==
  LET data == JsonData(rep, op_tags)
  IN  json_dumps([data EXCEPT
        !.covered_operations =
           [i \in DOMAIN Take(@, 2) |-> [@[i] EXCEPT !.tested_in_files = Take(@, 1)]],
        !.uncovered_operations = Take(@, 2)])

format_json(rep, op_tags) == json_dumps(JsonData(rep, op_tags))

\* One row of the method and tag tables of the HTML report.
HtmlRow(table, b) ==
  [line |-> table, status |-> b.status, key |-> b.key, total |-> b.total,
   covered |-> b.covered, uncovered |-> b.total - b.covered,
   pct1 |-> Fixed1(b.percentage)]

\* Mutant: the HTML report carries a generation time, as the Markdown one does.
HtmlWithTimestamp(rep, op_tags) ==
  << [line |-> "Total Endpoints", n |-> rep.total_endpoints],
     [line |-> "Covered", n |-> rep.covered_endpoints],
     [line |-> "Uncovered", n |-> rep.uncovered_endpoints],
     [line |-> "Report generated", at |-> clock] >>

format_html(rep, op_tags) ==
  LET methods   == Sorted(rep.coverage_by_method, "method")
      tags      == Sorted(rep.coverage_by_tag, "percentage desc")
      uncovered == Sorted(rep.uncovered_operations, "operation_id")
      covered   == Sorted(rep.covered_operations, "operation_id")
  IN  << [line |-> "Total Endpoints", n |-> rep.total_endpoints],
         [line |-> "Covered", n |-> rep.covered_endpoints],
         [line |-> "Uncovered", n |-> rep.uncovered_endpoints],
         [line |-> "progress", width |-> rep.coverage_percentage,
          pct0 |-> Rounded(rep.coverage_percentage)] >>
      \o [i \in DOMAIN methods |-> HtmlRow("method", methods[i])]
      \o [i \in DOMAIN tags |-> HtmlRow("tag", tags[i])]
      \o [i \in DOMAIN uncovered |->
            [line |-> "uncovered", operation_id |-> uncovered[i].operation_id,
             method |-> uncovered[i].method, path |-> uncovered[i].path,
             tags |-> uncovered[i].tags]]
      \o [i \in DOMAIN covered |->
            LET feature_files == FilesFor(op_tags, covered[i])
            IN  [line |-> "covered", operation_id |-> covered[i].operation_id,
                 method |-> covered[i].method, path |-> covered[i].path,
                 files |-> Take(feature_files, 5),
                 more |-> IF Len(feature_files) > 5 THEN Len(feature_files) - 5 ELSE 0]]

\* One row of the method and tag tables of the Markdown report.
MarkdownRow(table, b) ==
  [line |-> table, status |-> b.status, key |-> b.key,
   covered |-> b.covered, total |-> b.total, pct1 |-> Fixed1(b.percentage)]

\* The document up to the footer; the footer's line is the wall clock's.
MarkdownBody(rep) ==
  LET methods   == Sorted(rep.coverage_by_method, "method")
      tags      == Sorted(rep.coverage_by_tag, "percentage desc")
      uncovered == Sorted(rep.uncovered_operations, "operation_id")
      coverage_badge == _get_status_emoji(rep.coverage_percentage)
  IN  << [line |-> "Coverage", badge |-> coverage_badge,
          pct2 |-> Fixed2(rep.coverage_percentage)],
         [line |-> "Total Endpoints", n |-> rep.total_endpoints],
         [line |-> "Covered Endpoints", n |-> rep.covered_endpoints],
         [line |-> "Uncovered Endpoints", n |-> rep.uncovered_endpoints],
         [line |-> "Coverage Percentage", badge |-> coverage_badge,
          pct2 |-> Fixed2(rep.coverage_percentage)] >>
      \o (IF rep.coverage_by_method # <<>>
          THEN <<[line |-> "Coverage by HTTP Method"]>>
               \o [i \in DOMAIN methods |-> MarkdownRow("method", methods[i])]
          ELSE <<>>)
      \o (IF rep.coverage_by_tag # <<>>
          THEN <<[line |-> "Coverage by API Tag"]>>
               \o [i \in DOMAIN tags |-> MarkdownRow("tag", tags[i])]
          ELSE <<>>)
      \o (IF rep.uncovered_operations # <<>>
          THEN <<[line |-> "Uncovered Endpoints", n |-> Len(rep.uncovered_operations)]>>
               \o [i \in DOMAIN uncovered |->
                     [line |-> "uncovered", operation_id |-> uncovered[i].operation_id,
                      method |-> uncovered[i].method, path |-> uncovered[i].path,
                      tags |-> uncovered[i].tags]]
          ELSE <<>>)

\* The footer: *Report generated: {datetime.now()}*
format_markdown(rep, op_tags) ==
  MarkdownBody(rep) \o <<[line |-> "Report generated", at |-> clock]>>

Formats == {"console", "json", "html", "markdown"}

\* main's dispatch on args.format
Render(fmt, rep, op_tags) ==
  CASE fmt = "console"  -> format_console(rep, op_tags)
    [] fmt = "json"     -> format_json(rep, op_tags)
    [] fmt = "html"     -> format_html(rep, op_tags)
    [] fmt = "markdown" -> format_markdown(rep, op_tags)

\* Mutant: list.sort(key=...), which orders the list it is called on.
SortedInPlace(items, key) == Sorted(items, key)

\* The argument of sorted(items, key=...) after the call: sorted builds a
\* new list and leaves items as it was.
ArgumentAfterSorted(items, key) == items

\* The report after a render: the renderers read its operation lists through
\* sorted() and its other fields directly.
ReportAfter(fmt, rep) ==
  CASE fmt = "console" ->
         [rep EXCEPT
            !.uncovered_operations = ArgumentAfterSorted(@, "first tag, operation_id"),
            !.covered_operations = ArgumentAfterSorted(@, "operation_id")]
    [] fmt = "json" -> rep
    [] fmt = "html" ->
         [rep EXCEPT
            !.uncovered_operations = ArgumentAfterSorted(@, "operation_id"),
            !.covered_operations = ArgumentAfterSorted(@, "operation_id")]
    [] fmt = "markdown" ->
         [rep EXCEPT !.uncovered_operations = ArgumentAfterSorted(@, "operation_id")]

(***************************************************************************)
(* OpenAPIParser                                                           *)
(*                                                                         *)
(* A JSON object is a sequence of [key, value] members in document order   *)
(* (json.load keeps it in the dict); an operation object is a function     *)
(* from the fields it declares.                                            *)
(***************************************************************************)

\* obj.get(field, default)
Get(obj, field, default) == IF field \in DOMAIN obj THEN obj[field] ELSE default

\* for method in ['get', 'post', 'put', 'patch', 'delete']
VerbList == <<"get", "post", "put", "patch", "delete">>

\* method.upper()
Upper(method) ==
  CASE method = "get"    -> "GET"
    [] method = "post"   -> "POST"
    [] method = "put"    -> "PUT"
    [] method = "patch"  -> "PATCH"
    [] method = "delete" -> "DELETE"
    [] method = "head"   -> "HEAD"

\* The members of path_item with this key (at most one: keys are unique).
Members(path_item, key) == {j \in DOMAIN path_item : path_item[j].key = key}

\* Mutant: an operation is kept whatever its operationId.
KeepsAny(operation_id) == TRUE

\* if operation_id:
Keeps(operation_id) == operation_id # ""

\* Mutant: the members of path_item are walked as the document lists them.
VerbsInDocumentOrder(path_item) ==
  LET declared == SelectSeq(path_item,
                            LAMBDA m : \E v \in DOMAIN VerbList : VerbList[v] = m.key)
  IN  [j \in DOMAIN declared |-> declared[j].key]

\* The verbs of VerbList that path_item declares, in VerbList's order.
VerbsRead(path_item) ==
  SelectSeq(VerbList, LAMBDA method : Members(path_item, method) # {})

\* The inner loop: the operations of one path.
RECURSIVE ExtractPath(_, _, _, _)
ExtractPath(path, path_item, verbs, v) ==
  IF v > Len(verbs) THEN <<>>
  ELSE LET method       == verbs[v]
           operation    == path_item[CHOOSE j \in Members(path_item, method) : TRUE].value
           operation_id == Get(operation, "operationId", "")
           rest         == ExtractPath(path, path_item, verbs, v + 1)
       IN  IF Keeps(operation_id)
           THEN <<[operation_id |-> operation_id,
                   path         |-> path,
                   method       |-> Upper(method),
                   summary      |-> Get(operation, "summary", ""),
                   tags         |-> Get(operation, "tags", <<>>)]>> \o rest
           ELSE rest

\* for path, path_item in paths.items()
RECURSIVE ExtractPaths(_, _)
ExtractPaths(paths, i) ==
  IF i > Len(paths) THEN <<>>
  ELSE ExtractPath(paths[i].key, paths[i].value, VerbsRead(paths[i].value), 1)
         \o ExtractPaths(paths, i + 1)

extract_operations(document) == ExtractPaths(Get(document, "paths", <<>>), 1)

\* The longest paths mapping of a schema.
MaxPaths == 2

Member(k, v) == [key |-> k, value |-> v]

\* The members a path item is built from: operations with and without an
\* operationId, with and without tags and summary, and a verb outside VerbList.
PathMembers ==
  { Member("get",  [operationId |-> "getX", summary |-> "Get x", tags |-> <<"x">>]),
    Member("get",  [summary |-> "No id"]),
    Member("post", [operationId |-> "postX"]),
    Member("post", [operationId |-> "", tags |-> <<"x", "y">>]),
    Member("head", [operationId |-> "headX", tags |-> <<"x">>]) }

GetMember == Member("get", [operationId |-> "getX", summary |-> "Get x", tags |-> <<"x">>])
PostMember == Member("post", [operationId |-> "postX"])
HeadMember == Member("head", [operationId |-> "headX", tags |-> <<"x">>])

\* Path items: one member, or two with distinct keys, in either order.
PathItems ==
  { <<m>> : m \in PathMembers }
    \cup { <<PostMember, GetMember>>,
           <<GetMember, PostMember>>,
           <<HeadMember, GetMember>>,
           <<PostMember, HeadMember>>,
           <<Member("get", [summary |-> "No id"]),
             Member("post", [operationId |-> "", tags |-> <<"x", "y">>])>> }

PathNames == {"/x", "/y", "/z"}

\* The keys of a paths mapping of n paths: distinct, in any order.
PathOrders(n) ==
  {o \in [1..n -> PathNames] : \A i, j \in 1..n : o[i] = o[j] => i = j}

\* The schema documents: with a paths mapping of up to MaxPaths paths, or
\* with none at all.
Documents ==
  UNION { { [paths |-> [i \in 1..n |-> Member(o[i], items[i])]] :
              o \in PathOrders(n), items \in [1..n -> PathItems] } :
          n \in 0..MaxPaths }
    \cup { [info |-> "no paths"] }

(***************************************************************************)
(* FeatureFileParser                                                       *)
(*                                                                         *)
(* A file's content is the sequence of its characters; a path is the       *)
(* sequence of its components.                                             *)
(***************************************************************************)

\* The literal prefix of op_tag_pattern, r'@apiOperation:(\w+)'.
Marker == <<"@", "a", "p", "i", "O", "p", "e", "r", "a", "t", "i", "o", "n", ":">>

\* The characters \w matches (the ASCII ones).
WordChars ==
  {"a", "b", "c", "d", "e", "f", "g", "h", "i", "j", "k", "l", "m",
   "n", "o", "p", "q", "r", "s", "t", "u", "v", "w", "x", "y", "z",
   "A", "B", "C", "D", "E", "F", "G", "H", "I", "J", "K", "L", "M",
   "N", "O", "P", "Q", "R", "S", "T", "U", "V", "W", "X", "Y", "Z",
   "0", "1", "2", "3", "4", "5", "6", "7", "8", "9", "_"}

\* The string made of the characters of chars.
RECURSIVE Join(_)
Join(chars) == IF chars = <<>> THEN "" ELSE Head(chars) \o Join(Tail(chars))

\* The pattern matches at position i: the prefix, then at least one \w.
MatchesAt(content, i) ==
  /\ i + Len(Marker) <= Len(content)
  /\ SubSeq(content, i, i + Len(Marker) - 1) = Marker
  /\ content[i + Len(Marker)] \in WordChars

\* Mutant: the group takes one character, as (\w) or (\w+?) would.
WordEndLazy(content, k) == k

\* \w+ is greedy: the last position of the run of \w that starts at k.
RECURSIVE WordEnd(_, _)
WordEnd(content, k) ==
  IF k < Len(content) /\ content[k + 1] \in WordChars
  THEN WordEnd(content, k + 1)
  ELSE k

\* Mutant: only the first match of a file is returned (search, not findall).
FindFirst(content, i) ==
  LET starts == {k \in DOMAIN content : MatchesAt(content, k)}
  IN  IF starts = {} THEN <<>>
      ELSE LET k == CHOOSE m \in starts : \A n \in starts : m <= n
           IN  <<Join(SubSeq(content, k + Len(Marker), WordEnd(content, k + Len(Marker))))>>

\* op_tag_pattern.findall(content), scanning from position i: the captured
\* groups of the non-overlapping matches, leftmost first.
RECURSIVE FindAll(_, _)
FindAll(content, i) ==
  IF i > Len(content) THEN <<>>
  ELSE IF MatchesAt(content, i)
       THEN LET j == WordEnd(content, i + Len(Marker))
            IN  <<Join(SubSeq(content, i + Len(Marker), j))>> \o FindAll(content, j + 1)
       ELSE FindAll(content, i + 1)

\* path.parent
Parent(path) == IF path = <<>> THEN <<>> ELSE SubSeq(path, 1, Len(path) - 1)

\* str(path)
RECURSIVE Str(_)
Str(path) ==
  IF path = <<>> THEN "."
  ELSE IF Len(path) = 1 THEN path[1]
       ELSE path[1] \o "/" \o Str(Tail(path))

\* str(feature_file.relative_to(base)); base is an ancestor of every file
\* rglob finds under features_dir.
RelativeTo(path, base) == Str(SubSeq(path, Len(base) + 1, Len(path)))

\* operation_tags[operation_id].append(file) on a defaultdict(list)
AppendTo(tags, operation_id, file) ==
  IF operation_id \in DOMAIN tags
  THEN [tags EXCEPT ![operation_id] = Append(@, file)]
  ELSE tags @@ (operation_id :> <<file>>)

\* for operation_id in matches: ... append
RECURSIVE AppendMatches(_, _, _, _)
AppendMatches(tags, matches, m, file) ==
  IF m > Len(matches) THEN tags
  ELSE AppendMatches(AppendTo(tags, matches[m], file), matches, m + 1, file)

\* Mutant: open() succeeds exactly on the files it fails on.
CanReadInverted(feature_file) == ~feature_file.readable

\* open(feature_file) and f.read() succeed; otherwise the exception is caught
\* and only a warning is printed.
CanRead(feature_file) == feature_file.readable

\* Mutant: a file that cannot be read through still contributes its first match.
ScanFilePartial(tags, feature_file, root) ==
  LET matches == FindAll(feature_file.content, 1)
      file    == RelativeTo(feature_file.path, root)
  IN  IF feature_file.readable
      THEN AppendMatches(tags, matches, 1, file)
      ELSE AppendMatches(tags, Take(matches, 1), 1, file)

\* The body of the loop over feature_files: the try block.
ScanFile(tags, feature_file, root) ==
  IF CanRead(feature_file)
  THEN AppendMatches(tags, FindAll(feature_file.content, 1), 1,
                     RelativeTo(feature_file.path, root))
  ELSE tags

RECURSIVE ScanFiles(_, _, _, _)
ScanFiles(tags, files, i, root) ==
  IF i > Len(files) THEN tags
  ELSE ScanFiles(ScanFile(tags, files[i], root), files, i + 1, root)

\* defaultdict(list)
EmptyMapping == [id \in {} |-> <<>>]

\* FeatureFileParser(dir).extract_operation_tags(), files being what
\* dir.rglob('*.feature') lists.
extract_operation_tags(files, dir) ==
  ScanFiles(EmptyMapping, files, 1, Parent(Parent(Parent(dir))))

\* --features, resolved (default: test/api/platform/features).
FeaturesPath == <<"test", "api", "platform", "features">>

GetX == <<"g", "e", "t", "X">>
PostX == <<"p", "o", "s", "t", "X">>

\* What a feature file may hold: nothing, one marker, the same marker twice,
\* two markers, a marker cut from its id by a blank, and a marker whose id
\* is followed by characters outside \w.
FeatureContents ==
  { <<>>,
    Marker \o GetX,
    Marker \o GetX \o <<"\n">> \o Marker \o GetX,
    <<"@", "s", " ">> \o Marker \o PostX \o <<" ">> \o Marker \o GetX,
    Marker \o <<" ">> \o GetX,
    Marker \o PostX \o <<"-">> \o GetX }

\* The longest listing of feature files.
MaxFiles == 2

\* The i-th file rglob lists: at the root of features_dir or below it.
FeaturePathOf(i) ==
  FeaturesPath \o (CASE i = 1 -> <<"f1.feature">>
                     [] i = 2 -> <<"sub", "f2.feature">>
                     [] OTHER -> <<"sub", "deep", "f3.feature">>)

\* The listings: up to MaxFiles files, each readable or not.
FeatureListings ==
  UNION { { [i \in 1..n |-> [path |-> FeaturePathOf(i),
                             readable |-> f[i].readable,
                             content |-> f[i].content]] :
              f \in [1..n -> [readable : BOOLEAN, content : FeatureContents]] } :
          n \in 0..MaxFiles }

\* A fixed operation list for the scans; the last operationId has a
\* character outside \w.
ScanOperations ==
  << EndpointInfo("getX", "/x", "GET", <<"x">>),
     EndpointInfo("postX", "/x", "POST", <<"x", "y">>),
     EndpointInfo("other", "/y", "GET", <<>>),
     EndpointInfo("postX-getX", "/y", "POST", <<"y">>) >>

(***************************************************************************)
(* main                                                                    *)
(*                                                                         *)
(* Only what reaches stdout and the file system is kept; the progress      *)
(* messages go to stderr.                                                  *)
(***************************************************************************)

\* Mutant: a schema that cannot be loaded is taken for an empty one.
LoadLeniently(file) == TRUE

\* OpenAPIParser._load_schema returns: the file exists and holds JSON.
\* Otherwise it prints an error and calls sys.exit(1).
_load_schema(file) == file = "ok"

\* datetime.now().strftime("%Y-%m-%d")
Date(now) ==
  CASE now = "2026-01-01 00:00:00" -> "2026-01-01"
    [] now = "2026-01-01 00:00:01" -> "2026-01-01"

\* report_dir / "api_coverage.html"
ReportPath == "reports/api_coverage.html"

\* archive_dir / f"api_coverage_{date_time_now}.html"
ArchivePath(now) == "reports/api_archive/api_coverage_" \o Date(now) \o ".html"

\* script_dir / f"coverage_report.{args.format}"
AutoNamedPath(fmt) == "coverage_report." \o fmt

\* Path(args.output).parent
OutputParent(path) ==
  CASE path = "out/report.txt" -> "out"
    [] OTHER -> "."

\* The values of --output: not given, or a path.
OutputPaths == {"none", "out/report.txt"}

\* What parse_args can return.
Arguments == [format : Formats, save : BOOLEAN, output : OutputPaths]

\* The command lines: --format with one of its choices or absent, --save
\* given or not, --output with a path or absent.
CommandLines == [format : Formats \cup {"absent"}, save : BOOLEAN, output : OutputPaths]

\* parser.parse_args(): add_argument('--format', ..., default='html',
\* help='Output format (default: console)')
parse_args(cl) ==
  [format |-> IF cl.format = "absent" THEN "html" ELSE cl.format,
   save   |-> cl.save,
   output |-> cl.output]

\* Mutant: --save writes the report file without the dated copy.
SavedWithoutCopy(save, doc, now) ==
  IF save THEN <<[path |-> ReportPath, document |-> doc]>> ELSE <<>>

\* if args.save: the HTML rendering replaces output and is written twice.
SavedFiles(save, doc, now) ==
  IF save
  THEN <<[path |-> ReportPath, document |-> doc],
         [path |-> ArchivePath(now), document |-> doc]>>
  ELSE <<>>

\* if args.output / else: the files the last block of main writes.
DeliveredFiles(arguments, doc) ==
  IF arguments.output # "none"
  THEN <<[path |-> arguments.output, document |-> doc]>>
  ELSE IF arguments.format = "console" THEN <<>>
       ELSE IF arguments.format = "html"
            THEN <<[path |-> ReportPath, document |-> doc]>>
            ELSE <<[path |-> AutoNamedPath(arguments.format), document |-> doc]>>

\* print(output)
Printed(arguments, doc) ==
  IF arguments.output = "none" /\ arguments.format = "console" THEN <<doc>> ELSE <<>>

\* The schema documents and the feature listings of the runs of main.
MainDocuments ==
  { [info |-> "no paths"],
    [paths |-> <<>>],
    [paths |-> << Member("/x", << Member("post", [operationId |-> "postX", tags |-> <<"x">>]),
                                  Member("get", [operationId |-> "getX", tags |-> <<"x">>]) >>),
                  Member("/y", << Member("get", [operationId |-> "other"]) >>) >>] }

MainSchemas ==
  [file : {"ok"}, document : MainDocuments]
    \cup [file : {"missing", "invalid"}, document : {[info |-> "no paths"]}]

MainListings ==
  { <<>>,
    << [path |-> FeaturePathOf(1), readable |-> TRUE, content |-> Marker \o GetX] >>,
    << [path |-> FeaturePathOf(1), readable |-> FALSE, content |-> Marker \o GetX],
       [path |-> FeaturePathOf(2), readable |-> TRUE,
        content |-> Marker \o PostX \o <<"\n">> \o Marker \o PostX] >> }

(***************************************************************************)
(* Actions                                                                 *)
(***************************************************************************)

\* Two readings of the wall clock, one second apart.
Timestamps == <<"2026-01-01 00:00:00", "2026-01-01 00:00:01">>

\* main has not run: the analyzer is driven directly.
NoSchema == [file |-> "ok", document |-> [info |-> "no paths"]]
NoArgs == [format |-> "html", save |-> FALSE, output |-> "none"]
NoArgv == [format |-> "absent", save |-> FALSE, output |-> "none"]

NoMain ==
  /\ schema = NoSchema
  /\ features_dir = <<>>
  /\ args = NoArgs
  /\ step = "none"
  /\ exit_code = "running"
  /\ stdout = <<>>
  /\ written = <<>>
  /\ created = {}
  /\ argv = NoArgv

Init ==
  /\ operations \in OperationLists
  /\ operation_tags \in TagMappings
  /\ pc = "constructed"
  /\ report = NoReport
  /\ previous_report = NoReport
  /\ renders = "none"
  /\ format = "none"
  /\ output = <<>>
  /\ previous_output = <<>>
  /\ clock = Timestamps[1]
  /\ NoMain

\* report = analyzer.analyze(), a first and a second time on the same analyzer.
Analyze ==
  /\ pc \in {"constructed", "analyzed"}
  /\ renders = "none"
  /\ LET r == analyze(operations, operation_tags)
     IN  IF Raised(r)
         THEN pc' = "raised" /\ UNCHANGED <<report, previous_report>>
         ELSE /\ pc' = (IF pc = "constructed" THEN "analyzed" ELSE "reanalyzed")
              /\ report' = r
              /\ previous_report' = report
  /\ UNCHANGED <<operations, operation_tags, renders, format, output, previous_output, clock>>
  /\ UNCHANGED mainVars

\* output = formatter.format_<fmt>(report, operation_tags), a first and a second
\* time on the same report and mapping, once both analyses have returned.
Format ==
  /\ pc = "reanalyzed"
  /\ renders # "twice"
  /\ \E fmt \in Formats :
       /\ renders = "once" => fmt = format
       /\ format' = fmt
       /\ output' = Render(fmt, report, operation_tags)
       /\ report' = ReportAfter(fmt, report)
  /\ previous_output' = output
  /\ renders' = (IF renders = "none" THEN "once" ELSE "twice")
  /\ UNCHANGED <<operations, operation_tags, pc, previous_report, clock>>
  /\ UNCHANGED mainVars

\* Time passes.
Tick ==
  /\ clock = Timestamps[1]
  /\ clock' = Timestamps[2]
  /\ UNCHANGED <<operations, operation_tags, pc, report, previous_report,
                 renders, format, output, previous_output>>
  /\ UNCHANGED mainVars

\* The analyzer alone.
Next == Analyze

Spec == Init /\ [][Next]_vars

\* The analyzer called twice, then the formatter called twice, as time passes.
NextRender == Analyze \/ Format \/ Tick

SpecRender == Init /\ [][NextRender]_vars

\* parser = OpenAPIParser(schema_path): the schema file has been loaded.
InitExtract ==
  /\ schema \in [file : {"ok"}, document : Documents]
  /\ operations = <<>>
  /\ step = "loaded"
  /\ operation_tags = EmptyMapping
  /\ pc = "none"
  /\ report = NoReport
  /\ previous_report = NoReport
  /\ renders = "none"
  /\ format = "none"
  /\ output = <<>>
  /\ previous_output = <<>>
  /\ clock = Timestamps[1]
  /\ features_dir = <<>>
  /\ args = NoArgs
  /\ exit_code = "running"
  /\ stdout = <<>>
  /\ written = <<>>
  /\ created = {}
  /\ argv = NoArgv

\* operations = parser.extract_operations()
Extract ==
  /\ step = "loaded"
  /\ operations' = extract_operations(schema.document)
  /\ step' = "extracted"
  /\ UNCHANGED <<operation_tags, pc, report, previous_report, renders, format,
                 output, previous_output, clock>>
  /\ UNCHANGED <<schema, features_dir, args, exit_code, stdout, written, created, argv>>

\* The extractor alone.
NextExtract == Extract

SpecExtract == InitExtract /\ [][NextExtract]_vars

\* feature_parser = FeatureFileParser(features_path): the operations have
\* been extracted, the features directory is as the run finds it.
InitScan ==
  /\ schema = NoSchema
  /\ operations = ScanOperations
  /\ step = "extracted"
  /\ features_dir \in FeatureListings
  /\ operation_tags = EmptyMapping
  /\ pc = "none"
  /\ report = NoReport
  /\ previous_report = NoReport
  /\ renders = "none"
  /\ format = "none"
  /\ output = <<>>
  /\ previous_output = <<>>
  /\ clock = Timestamps[1]
  /\ args = NoArgs
  /\ exit_code = "running"
  /\ stdout = <<>>
  /\ written = <<>>
  /\ created = {}
  /\ argv = NoArgv

\* operation_tags = feature_parser.extract_operation_tags()
\* analyzer = CoverageAnalyzer(operations, operation_tags)
\* A second run over the same operations scans again after the first report.
Scan ==
  /\ \/ step = "extracted" /\ pc = "none"
     \/ step = "rescan" /\ pc = "analyzed"
  /\ operation_tags' = extract_operation_tags(features_dir, FeaturesPath)
  /\ step' = (IF step = "extracted" THEN "scanned" ELSE "rescanned")
  /\ pc' = (IF step = "extracted" THEN "constructed" ELSE pc)
  /\ UNCHANGED <<operations, report, previous_report, renders, format,
                 output, previous_output, clock>>
  /\ UNCHANGED <<schema, features_dir, args, exit_code, stdout, written, created, argv>>

\* Between two runs some files stop being readable.
LoseFiles ==
  /\ step = "scanned"
  /\ pc = "analyzed"
  /\ \E lost \in SUBSET DOMAIN features_dir :
       features_dir' = [i \in DOMAIN features_dir |->
                          IF i \in lost
                          THEN [features_dir[i] EXCEPT !.readable = FALSE]
                          ELSE features_dir[i]]
  /\ step' = "rescan"
  /\ UNCHANGED <<operations, operation_tags, pc, report, previous_report, renders,
                 format, output, previous_output, clock>>
  /\ UNCHANGED <<schema, args, exit_code, stdout, written, created, argv>>

\* The scanner, the analyzer after it, and a second run with fewer files.
NextScan == Scan \/ Analyze \/ LoseFiles

SpecScan == InitScan /\ [][NextScan]_vars

\* A file list longer than any cap of a renderer, with repeated files.
ManyFiles ==
  << "api/platform/features/f1.feature", "api/platform/features/f1.feature",
     "api/platform/features/sub/f2.feature", "api/platform/features/f1.feature",
     "api/platform/features/sub/f2.feature", "api/platform/features/sub/f2.feature",
     "api/platform/features/f1.feature" >>

\* The mappings the renderers are given: each of getX and postX tagged or
\* not, getX in many places.
FormatMappings ==
  { [k \in K |-> IF k = "getX" THEN ManyFiles ELSE FilesOf[k]] :
      K \in SUBSET {"getX", "postX"} }

\* analyzer = CoverageAnalyzer(operations, operation_tags), before a report
\* is rendered.
InitFormat ==
  /\ operations \in OperationLists
  /\ operation_tags \in FormatMappings
  /\ pc = "constructed"
  /\ report = NoReport
  /\ previous_report = NoReport
  /\ renders = "none"
  /\ format = "none"
  /\ output = <<>>
  /\ previous_output = <<>>
  /\ clock = Timestamps[1]
  /\ NoMain

\* The analyzer and the renderers after it.
NextFormat == Analyze \/ Format

SpecFormat == InitFormat /\ [][NextFormat]_vars

\* The longest list the covered listing is given: past the listing's cap of
\* twenty with three identifiers that no file names.
MaxListed == 24

\* The i-th operation of a long schema: getX and postX in turn, every seventh
\* identifier named by no file, methods and paths in rotation, every third
\* operation with one tag and every fifth with two.
ListedOperation(i) ==
  EndpointInfo(IF i % 7 = 0 THEN "other" ELSE IF i % 2 = 1 THEN "postX" ELSE "getX",
               <<"/x", "/y", "/z">>[(i % 3) + 1],
               <<"GET", "POST", "PUT", "DELETE", "PATCH">>[(i % 5) + 1],
               IF i % 5 = 0 THEN <<"y", "x">> ELSE IF i % 3 = 0 THEN <<"x">> ELSE <<>>)

\* The operations of the schemas with up to MaxListed operations.
Listings == { [i \in 1..n |-> ListedOperation(i)] : n \in 0..MaxListed }

\* analyzer = CoverageAnalyzer(operations, operation_tags) on a long schema.
InitListing ==
  /\ operations \in Listings
  /\ operation_tags \in FormatMappings
  /\ pc = "constructed"
  /\ report = NoReport
  /\ previous_report = NoReport
  /\ renders = "none"
  /\ format = "none"
  /\ output = <<>>
  /\ previous_output = <<>>
  /\ clock = Timestamps[1]
  /\ NoMain

NextListing == Analyze \/ Format

SpecListing == InitListing /\ [][NextListing]_vars

\* args = parser.parse_args()
InitMain ==
  /\ argv \in CommandLines
  /\ args = parse_args(argv)
  /\ schema \in MainSchemas
  /\ features_dir \in MainListings
  /\ step = "start"
  /\ exit_code = "running"
  /\ stdout = <<>>
  /\ written = <<>>
  /\ created = {}
  /\ operations = <<>>
  /\ operation_tags = EmptyMapping
  /\ pc = "none"
  /\ report = NoReport
  /\ previous_report = NoReport
  /\ renders = "none"
  /\ format = "none"
  /\ output = <<>>
  /\ previous_output = <<>>
  /\ clock = Timestamps[1]

\* report_dir.mkdir(parents=True, exist_ok=True)
\* openapi_parser = OpenAPIParser(schema_path)
Load ==
  /\ step = "start"
  /\ created' = created \cup {"reports"}
  /\ IF _load_schema(schema.file)
     THEN step' = "loaded" /\ UNCHANGED exit_code
     ELSE step' = "exited" /\ exit_code' = "1"
  /\ UNCHANGED <<operations, operation_tags, pc, report, previous_report, renders,
                 format, output, previous_output, clock>>
  /\ UNCHANGED <<schema, features_dir, args, stdout, written, argv>>

\* report = analyzer.analyze(), once in a run of main.
AnalyzeOnce == step = "scanned" /\ pc = "constructed" /\ Analyze

\* output = formatter.format_<args.format>(report, operation_tags)
FormatReport ==
  /\ step = "scanned"
  /\ pc = "analyzed"
  /\ output' = Render(args.format, report, operation_tags)
  /\ format' = args.format
  /\ renders' = "once"
  /\ report' = ReportAfter(args.format, report)
  /\ step' = "formatted"
  /\ UNCHANGED <<operations, operation_tags, pc, previous_report,
                 previous_output, clock>>
  /\ UNCHANGED <<schema, features_dir, args, exit_code, stdout, written, created, argv>>

\* if args.save: ...; if args.output: ... else: ...; main returns.
Deliver ==
  /\ step = "formatted"
  /\ LET doc == IF args.save THEN format_html(report, operation_tags) ELSE output
     IN  /\ output' = doc
         /\ written' = written \o SavedFiles(args.save, doc, clock)
                               \o DeliveredFiles(args, doc)
         /\ stdout' = stdout \o Printed(args, doc)
  /\ format' = (IF args.save THEN "html" ELSE format)
  /\ created' = created
                  \cup (IF args.save THEN {"reports/api_archive"} ELSE {})
                  \cup (IF args.output # "none" THEN {OutputParent(args.output)} ELSE {})
  /\ step' = "done"
  /\ exit_code' = "0"
  /\ UNCHANGED <<operations, operation_tags, pc, report, previous_report, renders,
                 previous_output, clock>>
  /\ UNCHANGED <<schema, features_dir, args, argv>>

\* A run of main.
NextMain == Load \/ Extract \/ Scan \/ AnalyzeOnce \/ FormatReport \/ Deliver

SpecMain == InitMain /\ [][NextMain]_vars

(***************************************************************************)
(* Vocabulary of the properties                                            *)
(***************************************************************************)

Analyzed == pc \in {"analyzed", "reanalyzed"}

\* How many positions of ops hold the value op.
Occurrences(op, ops) == Cardinality({i \in DOMAIN ops : ops[i] = op})

\* How many positions of an operation's tags hold t.
TagCount(op, t) == Cardinality({j \in DOMAIN op.tags : op.tags[j] = t})

RECURSIVE Sum(_, _)
Sum(nums, i) == IF i > Len(nums) THEN 0 ELSE nums[i] + Sum(nums, i + 1)

\* The sum of F over the positions of ops.
SumOver(ops, F(_)) == Sum([i \in DOMAIN ops |-> F(ops[i])], 1)

\* The positions of a bucket map that hold key k.
Buckets(stats, k) == {i \in DOMAIN stats : stats[i].key = k}

\* A bucket's counter, 0 for a key the map does not hold.
TotalOf(stats, k) ==
  IF Buckets(stats, k) = {} THEN 0 ELSE stats[CHOOSE i \in Buckets(stats, k) : TRUE].total
CoveredOf(stats, k) ==
  IF Buckets(stats, k) = {} THEN 0 ELSE stats[CHOOSE i \in Buckets(stats, k) : TRUE].covered

UniqueKeys(stats) == \A i, j \in DOMAIN stats : stats[i].key = stats[j].key => i = j

RECURSIVE SumTotal(_, _)
SumTotal(stats, i) == IF i > Len(stats) THEN 0 ELSE stats[i].total + SumTotal(stats, i + 1)
RECURSIVE SumCovered(_, _)
SumCovered(stats, i) == IF i > Len(stats) THEN 0 ELSE stats[i].covered + SumCovered(stats, i + 1)

InKeys(op) == op.operation_id \in DOMAIN operation_tags

\* s is a subsequence of t: s[i..] embeds, in order, into t[j..].
RECURSIVE Embeds(_, _, _, _)
Embeds(s, i, t, j) ==
  IF i > Len(s) THEN TRUE
  ELSE IF j > Len(t) THEN FALSE
  ELSE IF s[i] = t[j] THEN Embeds(s, i + 1, t, j + 1)
  ELSE Embeds(s, i, t, j + 1)

(***************************************************************************)
(* C1 - C10                                                                *)
(***************************************************************************)

\* C1: in every report covered_endpoints + uncovered_endpoints equals
\* total_endpoints, total_endpoints is the length of the input list, and the
\* two counts are the lengths of covered_operations and uncovered_operations.
C1_CountsAddUp ==
  Analyzed =>
    /\ report.covered_endpoints + report.uncovered_endpoints = report.total_endpoints
    /\ report.total_endpoints = Len(operations)
    /\ report.covered_endpoints = Len(report.covered_operations)
    /\ report.uncovered_endpoints = Len(report.uncovered_operations)

C1_Witness ==
  Analyzed /\ report.covered_endpoints >= 1 /\ report.uncovered_endpoints >= 2

\* C2: every input operation, counted by position, lands in exactly one of
\* the two lists: in covered_operations when its operation_id is a key of the
\* tag mapping, in uncovered_operations otherwise; none is lost or duplicated.
C2_ExactlyOneList ==
  Analyzed =>
    \A op \in EndpointInfos :
      /\ Occurrences(op, report.covered_operations)
           = (IF InKeys(op) THEN Occurrences(op, operations) ELSE 0)
      /\ Occurrences(op, report.uncovered_operations)
           = (IF InKeys(op) THEN 0 ELSE Occurrences(op, operations))

C2_Witness ==
  /\ Analyzed
  /\ \E i, j \in DOMAIN operations :
       /\ i # j
       /\ operations[i] = operations[j]
       /\ InKeys(operations[i])
  /\ \E i \in DOMAIN operations : ~InKeys(operations[i])

\* C3: the method buckets partition the operations: a method's bucket counts
\* exactly the operations of that method (and the covered ones among them),
\* so the totals sum to total_endpoints and the covered counts to
\* covered_endpoints.
C3_MethodPartition ==
  Analyzed =>
    /\ UniqueKeys(report.coverage_by_method)
    /\ \A m \in Methods :
         /\ TotalOf(report.coverage_by_method, m)
              = Cardinality({i \in DOMAIN operations : operations[i].method = m})
         /\ CoveredOf(report.coverage_by_method, m)
              = Cardinality({i \in DOMAIN operations :
                               operations[i].method = m /\ InKeys(operations[i])})
    /\ \A i \in DOMAIN report.coverage_by_method :
         report.coverage_by_method[i].key \in Methods
    /\ SumTotal(report.coverage_by_method, 1) = report.total_endpoints
    /\ SumCovered(report.coverage_by_method, 1) = report.covered_endpoints

\* Scenario A of the specification.
C3_Witness ==
  /\ Analyzed
  /\ operations = << EndpointInfo("getX", "/x", "GET", <<"x">>),
                     EndpointInfo("postX", "/x", "POST", <<"x">>) >>
  /\ DOMAIN operation_tags = {"getX"}
  /\ report.total_endpoints = 2 /\ report.covered_endpoints = 1
  /\ report.uncovered_endpoints = 1 /\ report.coverage_percentage = <<50, 1>>
  /\ report.coverage_by_method =
       << [key |-> "GET", total |-> 1, covered |-> 1,
           percentage |-> <<100, 1>>, status |-> "GREEN"],
          [key |-> "POST", total |-> 1, covered |-> 0,
           percentage |-> <<0, 1>>, status |-> "RED"] >>
  /\ report.coverage_by_tag =
       << [key |-> "x", total |-> 2, covered |-> 1,
           percentage |-> <<50, 1>>, status |-> "RED"] >>

\* C4: a tag's bucket total is the number of (operation, position) pairs
\* holding that tag, over all operations, and its covered count is the same
\* number over the covered operations; an operation without tags changes no
\* tag bucket, yet is in one of the two lists and in its method's bucket.
C4_TagBuckets ==
  Analyzed =>
    /\ UniqueKeys(report.coverage_by_tag)
    /\ \A i \in DOMAIN report.coverage_by_tag : report.coverage_by_tag[i].key \in Tags
    /\ \A t \in Tags :
         LET Here(op) == TagCount(op, t)
             HereCovered(op) == IF InKeys(op) THEN TagCount(op, t) ELSE 0
         IN  /\ TotalOf(report.coverage_by_tag, t) = SumOver(operations, Here)
             /\ CoveredOf(report.coverage_by_tag, t) = SumOver(operations, HereCovered)
    /\ \A i \in DOMAIN operations :
         operations[i].tags = <<>> =>
           /\ TotalOf(report.coverage_by_method, operations[i].method) >= 1
           /\ \/ In(operations[i], report.covered_operations)
              \/ In(operations[i], report.uncovered_operations)

C4_Witness ==
  /\ Analyzed
  /\ \E i \in DOMAIN operations : operations[i].tags = <<>>
  /\ \E i \in DOMAIN operations : operations[i].tags = <<"x", "x">> /\ InKeys(operations[i])
  /\ \E i \in DOMAIN operations : operations[i].tags = <<"y", "x">> /\ ~InKeys(operations[i])

SumTagTotals == SumTotal(report.coverage_by_tag, 1)
NumTags(op) == Len(op.tags)
SomeOpHasSeveralTags == \E i \in DOMAIN operations : Len(operations[i].tags) > 1
NoOpWithoutTags == \A i \in DOMAIN operations : Len(operations[i].tags) >= 1
EveryOpHasOneTag == \A i \in DOMAIN operations : Len(operations[i].tags) = 1

\* C5 as stated: whenever some operation has more than one tag, the tag
\* totals sum to at least total_endpoints, with equality only when every
\* operation has exactly one tag.
C5_AsStated ==
  (Analyzed /\ SomeOpHasSeveralTags) =>
    /\ SumTagTotals >= report.total_endpoints
    /\ (SumTagTotals = report.total_endpoints => EveryOpHasOneTag)

\* C5, amended: the tag totals sum to the number of tags of all operations;
\* so whenever no operation has an empty tags sequence the sum is at least
\* total_endpoints, it exceeds total_endpoints when some operation has
\* more than one tag, and it equals total_endpoints only when every
\* operation has exactly one tag.
C5_TagTotalsSum ==
  Analyzed =>
    /\ SumTagTotals = SumOver(operations, NumTags)
    /\ NoOpWithoutTags =>
         /\ SumTagTotals >= report.total_endpoints
         /\ SomeOpHasSeveralTags => SumTagTotals > report.total_endpoints
         /\ SumTagTotals = report.total_endpoints => EveryOpHasOneTag

C5_Witness ==
  /\ Analyzed /\ NoOpWithoutTags /\ SomeOpHasSeveralTags
  /\ \E i \in DOMAIN operations : Len(operations[i].tags) = 1
  /\ SumTagTotals > report.total_endpoints

\* A percentage p is the value of covered * 100 / total, or 0 for total = 0.
IsPercentageOf(p, covered, total) ==
  /\ p[2] > 0
  /\ IF total > 0 THEN p[1] * total = covered * 100 * p[2] ELSE p[1] = 0
  /\ 0 <= p[1] /\ p[1] <= 100 * p[2]

\* C6: coverage_percentage is covered_endpoints * 100 / total_endpoints for
\* total_endpoints > 0 and 0 for total_endpoints = 0, hence within 0..100;
\* every method bucket and tag bucket follows the same rule.
C6_Percentages ==
  Analyzed =>
    /\ IsPercentageOf(report.coverage_percentage,
                      report.covered_endpoints, report.total_endpoints)
    /\ \A i \in DOMAIN report.coverage_by_method :
         LET b == report.coverage_by_method[i]
         IN  IsPercentageOf(b.percentage, b.covered, b.total)
    /\ \A i \in DOMAIN report.coverage_by_tag :
         LET b == report.coverage_by_tag[i]
         IN  IsPercentageOf(b.percentage, b.covered, b.total)

C6_Witness ==
  /\ Analyzed
  /\ report.total_endpoints = 3 /\ report.covered_endpoints = 2
  /\ report.coverage_percentage = <<200, 3>>
  /\ \E i \in DOMAIN report.coverage_by_tag :
       report.coverage_by_tag[i].percentage = <<75, 1>>

StatusOf(covered, total) ==
  IF covered * 100 >= 80 * total THEN "GREEN"
  ELSE IF covered * 100 >= 60 * total THEN "YELLOW"
  ELSE "RED"

\* C7: every bucket carries the status of its own percentage: GREEN from
\* 80 up, YELLOW from 60 up to below 80, RED below 60; exactly 80 is GREEN
\* and exactly 60 is YELLOW.
C7_Status ==
  Analyzed =>
    /\ \A i \in DOMAIN report.coverage_by_method :
         LET b == report.coverage_by_method[i]
         IN  b.status = StatusOf(b.covered, b.total)
    /\ \A i \in DOMAIN report.coverage_by_tag :
         LET b == report.coverage_by_tag[i]
         IN  b.status = StatusOf(b.covered, b.total)

\* A bucket at exactly 60 percent, another at 100 and a RED one.
C7_Witness ==
  /\ Analyzed
  /\ \E i \in DOMAIN report.coverage_by_tag :
       LET b == report.coverage_by_tag[i]
       IN  b.covered * 100 = 60 * b.total /\ b.total > 0 /\ b.status = "YELLOW"
  /\ \E i \in DOMAIN report.coverage_by_method :
       report.coverage_by_method[i].status = "GREEN"
  /\ \E i \in DOMAIN report.coverage_by_method :
       report.coverage_by_method[i].status = "RED"

AllCountsZero(stats) == \A i \in DOMAIN stats : stats[i].covered = 0 /\ stats[i].percentage = Zero

\* C8: analyze never raises; on an empty operation list the three counts are
\* 0, both bucket maps are empty and the percentage is 0; on an empty tag
\* mapping the covered count, every bucket's covered count and every
\* percentage are 0.
C8_NeverRaises ==
  /\ pc # "raised"
  /\ (Analyzed /\ operations = <<>>) =>
       /\ report.total_endpoints = 0 /\ report.covered_endpoints = 0
       /\ report.uncovered_endpoints = 0
       /\ report.coverage_by_tag = <<>> /\ report.coverage_by_method = <<>>
       /\ report.covered_operations = <<>> /\ report.uncovered_operations = <<>>
       /\ report.coverage_percentage = Zero
  /\ (Analyzed /\ DOMAIN operation_tags = {}) =>
       /\ report.covered_endpoints = 0
       /\ report.uncovered_endpoints = report.total_endpoints
       /\ report.covered_operations = <<>>
       /\ report.coverage_percentage = Zero
       /\ AllCountsZero(report.coverage_by_tag)
       /\ AllCountsZero(report.coverage_by_method)

C8_Witness == Analyzed /\ operations = <<>> /\ DOMAIN operation_tags = {}

\* A Markdown document without its 'Report generated' line.
WithoutTimestamp(doc) == SelectSeq(doc, LAMBDA l : l.line # "Report generated")
TimestampLines(doc) == SelectSeq(doc, LAMBDA l : l.line = "Report generated")

C10_InputOrder ==
  Analyzed =>
    /\ Embeds(report.covered_operations, 1, operations, 1)
    /\ Embeds(report.uncovered_operations, 1, operations, 1)

C10_Witness ==
  /\ Analyzed
  /\ Len(report.covered_operations) = 2
  /\ report.covered_operations[1] # report.covered_operations[2]
  /\ Len(report.uncovered_operations) = 1
  /\ operations[2] = report.uncovered_operations[1]


(***************************************************************************)
(* The extractor (SpecExtract)                                             *)
(***************************************************************************)

Extracted == step = "extracted"

SchemaPaths == Get(schema.document, "paths", <<>>)

\* The (path, key) members of the schema document, by position.
SchemaEntries ==
  {e \in (DOMAIN SchemaPaths) \X (1..2) : e[2] \in DOMAIN SchemaPaths[e[1]].value}

EntryPath(e) == SchemaPaths[e[1]].key
EntryKey(e) == SchemaPaths[e[1]].value[e[2]].key
EntryOperation(e) == SchemaPaths[e[1]].value[e[2]].value

IsVerb(key) == key \in {"get", "post", "put", "patch", "delete"}

HasOperationId(e) ==
  "operationId" \in DOMAIN EntryOperation(e) /\ EntryOperation(e).operationId # ""

Extractable(e) == IsVerb(EntryKey(e)) /\ HasOperationId(e)

\* The positions of the extracted operations that come from entry e.
ExtractedFrom(e) ==
  {k \in DOMAIN operations :
     /\ operations[k].path = EntryPath(e)
     /\ operations[k].method = Upper(EntryKey(e))
     /\ operations[k].operation_id = Get(EntryOperation(e), "operationId", "")}

\* C11: extract_operations returns exactly one operation for each (path, verb)
\* entry whose key is one of get, post, put, patch, delete and whose operation
\* object has a non-empty operationId, with the verb upper-cased as its method;
\* every other key and every operation without an operationId yields nothing.
C11_ExactlyTheIdentified ==
  Extracted =>
    /\ \A e \in SchemaEntries :
         Cardinality(ExtractedFrom(e)) = (IF Extractable(e) THEN 1 ELSE 0)
    /\ \A k \in DOMAIN operations :
         \E e \in SchemaEntries : Extractable(e) /\ k \in ExtractedFrom(e)
    /\ Len(operations) = Cardinality({e \in SchemaEntries : Extractable(e)})

\* A schema with an identified verb, a verb without operationId and a HEAD
\* entry with one has been extracted.
C11_Witness ==
  /\ Extracted
  /\ \E e \in SchemaEntries : Extractable(e)
  /\ \E e \in SchemaEntries : IsVerb(EntryKey(e)) /\ ~HasOperationId(e)
  /\ \E e \in SchemaEntries : ~IsVerb(EntryKey(e)) /\ HasOperationId(e)
  /\ Len(operations) = 1

\* The entry an extracted operation comes from.
EntryOf(op) ==
  CHOOSE e \in SchemaEntries : EntryPath(e) = op.path /\ Upper(EntryKey(e)) = op.method

VerbRank(method) == CHOOSE v \in DOMAIN VerbList : Upper(VerbList[v]) = method

\* The statement of C12 as written: extracted operations keep the order of
\* their entries in the schema document, two verbs of one path included.
C12_AsStated ==
  Extracted =>
    \A a, b \in DOMAIN operations :
      a < b =>
        LET ea == EntryOf(operations[a])
            eb == EntryOf(operations[b])
        IN  ea[1] < eb[1] \/ (ea[1] = eb[1] /\ ea[2] < eb[2])

\* C12 (amended): operations of different paths keep the document order of
\* their paths; operations of one path come in the fixed order get, post, put,
\* patch, delete, whatever order the document declares the verbs in.
C12_PathsThenVerbList ==
  Extracted =>
    \A a, b \in DOMAIN operations :
      a < b =>
        LET ea == EntryOf(operations[a])
            eb == EntryOf(operations[b])
        IN  \/ ea[1] < eb[1]
            \/ /\ ea[1] = eb[1]
               /\ VerbRank(operations[a].method) < VerbRank(operations[b].method)

\* Two paths were extracted, one of them declaring post before get.
C12_Witness ==
  /\ Extracted
  /\ \E a, b \in DOMAIN operations :
       /\ a < b
       /\ operations[a].path = operations[b].path
       /\ EntryOf(operations[a])[2] > EntryOf(operations[b])[2]
  /\ \E a, b \in DOMAIN operations : operations[a].path # operations[b].path

(***************************************************************************)
(* The scanner (SpecScan)                                                  *)
(***************************************************************************)

Scanned == step \in {"scanned", "rescanned"}

\* How many markers for id a content holds: the positions where the prefix
\* stands and the longest run of \w after it spells id.
MarkerCount(content, id) ==
  Cardinality({k \in DOMAIN content :
                 /\ MatchesAt(content, k)
                 /\ Join(SubSeq(content, k + Len(Marker),
                                WordEnd(content, k + Len(Marker)))) = id})

ReadableFiles == {i \in DOMAIN features_dir : features_dir[i].readable}

\* The name a file is listed under in the mapping.
ListedAs(i) == Str(SubSeq(features_dir[i].path, 2, Len(features_dir[i].path)))

\* The ids looked at: those some file mentions and those of the operations.
ScanIds == DOMAIN operation_tags \cup {"getX", "postX", "other", "post", "X"}

RECURSIVE SumOfSet(_, _)
SumOfSet(S, F) ==
  IF S = {} THEN 0
  ELSE LET x == CHOOSE y \in S : TRUE IN F[x] + SumOfSet(S \ {x}, F)

TimesListed(id, i) ==
  IF id \in DOMAIN operation_tags
  THEN Cardinality({k \in DOMAIN operation_tags[id] : operation_tags[id][k] = ListedAs(i)})
  ELSE 0

\* C13: the mapping has id as a key exactly when some readable feature file
\* holds a marker for id; the length of its list is the number of markers for
\* id over the readable files, a file with k markers being listed k times; no
\* key has an empty list.
C13_MappingCountsMarkers ==
  Scanned =>
    \A id \in ScanIds :
      LET count == [i \in ReadableFiles |-> MarkerCount(features_dir[i].content, id)]
      IN  /\ id \in DOMAIN operation_tags <=> \E i \in ReadableFiles : count[i] > 0
          /\ id \in DOMAIN operation_tags =>
               /\ Len(operation_tags[id]) = SumOfSet(ReadableFiles, count)
               /\ Len(operation_tags[id]) > 0
          /\ \A i \in ReadableFiles : TimesListed(id, i) = count[i]

\* A scan found getX three times, twice in one file, and postX once.
C13_Witness ==
  /\ Scanned
  /\ DOMAIN operation_tags = {"getX", "postX"}
  /\ Len(operation_tags["getX"]) = 3
  /\ \E i \in ReadableFiles : TimesListed("getX", i) = 2

\* The listing without the files that cannot be read.
OnlyReadable == SelectSeq(features_dir, LAMBDA f : f.readable)

\* C14: whatever files cannot be read, the scan ends normally, goes on with
\* the remaining files, and returns the mapping it would return if the
\* unreadable files did not exist: they contribute nothing, not even a part.
C14_UnreadableAsAbsent ==
  Scanned =>
    /\ exit_code = "running"
    /\ operation_tags = extract_operation_tags(OnlyReadable, FeaturesPath)

\* An unreadable file holding markers came before a readable one holding
\* markers, and the scan has ended.
C14_Witness ==
  /\ Scanned
  /\ \E i, j \in DOMAIN features_dir :
       /\ i < j
       /\ ~features_dir[i].readable
       /\ MarkerCount(features_dir[i].content, "postX") > 0
       /\ features_dir[j].readable
       /\ MarkerCount(features_dir[j].content, "getX") > 0
  /\ DOMAIN operation_tags = {"getX"}

\* The second run has scanned fewer files and reported.
Rescanned == step = "rescanned" /\ pc = "reanalyzed"

BucketKeys(stats) == {stats[i].key : i \in DOMAIN stats}

NoMoreCovered(now, before) ==
  /\ BucketKeys(now) = BucketKeys(before)
  /\ \A k \in BucketKeys(now) :
       /\ CoveredOf(now, k) <= CoveredOf(before, k)
       /\ TotalOf(now, k) = TotalOf(before, k)

\* C15: for a fixed operation list, a scan that reads a subset of the files
\* another scan reads covers a subset of its operations: covered_endpoints
\* and every bucket's covered are no greater, total_endpoints and every
\* bucket's total are the same.
C15_MonotoneInFiles ==
  Rescanned =>
    /\ \A k \in DOMAIN report.covered_operations :
         In(report.covered_operations[k], previous_report.covered_operations)
    /\ report.covered_endpoints <= previous_report.covered_endpoints
    /\ report.total_endpoints = previous_report.total_endpoints
    /\ NoMoreCovered(report.coverage_by_method, previous_report.coverage_by_method)
    /\ NoMoreCovered(report.coverage_by_tag, previous_report.coverage_by_tag)

\* The second run lost one of two covered operations.
C15_Witness ==
  /\ Rescanned
  /\ previous_report.covered_endpoints = 2
  /\ report.covered_endpoints = 1
  /\ \E i \in DOMAIN features_dir : features_dir[i].readable

(***************************************************************************)
(* The renderers (SpecFormat)                                              *)
(***************************************************************************)

Rendered == renders # "none"

\* The first line of a document with this label.
LineOf(doc, label) == Head(SelectSeq(doc, LAMBDA l : l.line = label))

DigitValue(c) == CHOOSE d \in 0..9 : DigitChars[d + 1] = c

\* int(chars)
RECURSIVE ParseInt(_)
ParseInt(chars) ==
  IF chars = <<>> THEN 0
  ELSE 10 * ParseInt(SubSeq(chars, 1, Len(chars) - 1)) + DigitValue(chars[Len(chars)])

\* The hundredths of a decimal literal with one or two decimals.
ParseHundredths(chars) ==
  LET dot  == CHOOSE i \in DOMAIN chars : chars[i] = "."
      frac == SubSeq(chars, dot + 1, Len(chars))
  IN  100 * ParseInt(SubSeq(chars, 1, dot - 1))
        + (IF Len(frac) = 1 THEN 10 * ParseInt(frac) ELSE ParseInt(frac))

\* obj[key] of a parsed JSON object.
ValueOf(obj, k) == obj.object[CHOOSE i \in DOMAIN obj.object : obj.object[i].key = k].value

HasMember(obj, k) == \E i \in DOMAIN obj.object : obj.object[i].key = k

ParseStrings(arr) == [i \in DOMAIN arr.array |-> arr.array[i].string]

ParseOperation(obj) ==
  LET fields == [operation_id |-> ValueOf(obj, "operation_id").string,
                 path         |-> ValueOf(obj, "path").string,
                 method       |-> ValueOf(obj, "method").string,
                 summary      |-> ValueOf(obj, "summary").string,
                 tags         |-> ParseStrings(ValueOf(obj, "tags"))]
  IN  IF HasMember(obj, "tested_in_files")
      THEN fields @@ [tested_in_files |-> ParseStrings(ValueOf(obj, "tested_in_files"))]
      ELSE fields

\* json.loads(text), for the members the properties read.
json_loads(text) ==
  LET summary == ValueOf(text, "summary")
  IN  [ summary |->
          [ total_endpoints     |-> ParseInt(ValueOf(summary, "total_endpoints").number),
            covered_endpoints   |-> ParseInt(ValueOf(summary, "covered_endpoints").number),
            uncovered_endpoints |-> ParseInt(ValueOf(summary, "uncovered_endpoints").number),
            coverage_percentage |->
              ParseHundredths(ValueOf(summary, "coverage_percentage").number) ],
        covered_operations |->
          [i \in DOMAIN ValueOf(text, "covered_operations").array |->
             ParseOperation(ValueOf(text, "covered_operations").array[i])],
        uncovered_operations |->
          [i \in DOMAIN ValueOf(text, "uncovered_operations").array |->
             ParseOperation(ValueOf(text, "uncovered_operations").array[i])] ]

\* The counts a document of each format shows: total, covered, uncovered.
ShownCounts(fmt, doc) ==
  CASE fmt = "console" ->
         <<LineOf(doc, "Total Endpoints").n, LineOf(doc, "Covered Endpoints").n,
           LineOf(doc, "Uncovered Endpoints").n>>
    [] fmt = "json" ->
         LET summary == json_loads(doc).summary
         IN  <<summary.total_endpoints, summary.covered_endpoints,
               summary.uncovered_endpoints>>
    [] fmt = "html" ->
         <<LineOf(doc, "Total Endpoints").n, LineOf(doc, "Covered").n,
           LineOf(doc, "Uncovered").n>>
    [] fmt = "markdown" ->
         <<LineOf(doc, "Total Endpoints").n, LineOf(doc, "Covered Endpoints").n,
           LineOf(doc, "Uncovered Endpoints").n>>

\* The overall percentage a document of each format shows, in hundredths.
ShownPercentage(fmt, doc) ==
  CASE fmt = "console"  -> LineOf(doc, "Coverage").pct2
    [] fmt = "json"     -> json_loads(doc).summary.coverage_percentage
    [] fmt = "html"     -> 100 * LineOf(doc, "progress").pct0
    [] fmt = "markdown" -> LineOf(doc, "Coverage Percentage").pct2

ReportCounts ==
  <<report.total_endpoints, report.covered_endpoints, report.uncovered_endpoints>>

\* The four documents of the report just rendered.
ConsoleDoc == format_console(report, operation_tags)
JsonDoc == format_json(report, operation_tags)
HtmlDoc == format_html(report, operation_tags)
MarkdownDoc == format_markdown(report, operation_tags)

\* The statement of C16 as written: the four renderers show the report's
\* counts, and the overall percentage shown is the same value in all four.
C16_AsStated ==
  Rendered =>
    LET console  == ConsoleDoc
        json     == JsonDoc
        html     == HtmlDoc
        markdown == MarkdownDoc
        shown    == ShownPercentage("console", console)
    IN  /\ output = (CASE format = "console"  -> console
                       [] format = "json"     -> json
                       [] format = "html"     -> html
                       [] format = "markdown" -> markdown)
        /\ ShownCounts("console", console) = ReportCounts
        /\ ShownCounts("json", json) = ReportCounts
        /\ ShownCounts("html", html) = ReportCounts
        /\ ShownCounts("markdown", markdown) = ReportCounts
        /\ ShownPercentage("json", json) = shown
        /\ ShownPercentage("html", html) = shown
        /\ ShownPercentage("markdown", markdown) = shown

\* C16 (amended): the four renderers show the report's total, covered and
\* uncovered counts; the console, JSON and Markdown documents show the overall
\* percentage rounded to two decimals, the same value in the three; the HTML
\* document shows it rounded to the nearest integer, within half a point of
\* the report's percentage.
C16_CountsAgree ==
  Rendered =>
    LET console  == ConsoleDoc
        json     == JsonDoc
        html     == HtmlDoc
        markdown == MarkdownDoc
        shown    == ShownPercentage("console", console)
        progress == LineOf(html, "progress")
        pct      == report.coverage_percentage
    IN  /\ output = (CASE format = "console"  -> console
                       [] format = "json"     -> json
                       [] format = "html"     -> html
                       [] format = "markdown" -> markdown)
        /\ ShownCounts("console", console) = ReportCounts
        /\ ShownCounts("json", json) = ReportCounts
        /\ ShownCounts("html", html) = ReportCounts
        /\ ShownCounts("markdown", markdown) = ReportCounts
        /\ ShownPercentage("json", json) = shown
        /\ ShownPercentage("markdown", markdown) = shown
        /\ 2 * (shown * pct[2] - 100 * pct[1]) <= pct[2]
        /\ 2 * (100 * pct[1] - shown * pct[2]) <= pct[2]
        /\ 2 * (progress.pct0 * pct[2] - pct[1]) <= pct[2]
        /\ 2 * (pct[1] - progress.pct0 * pct[2]) <= pct[2]
        /\ progress.width = pct

\* An HTML report of one covered operation out of three has been rendered.
C16_Witness ==
  /\ Rendered
  /\ format = "html"
  /\ report.total_endpoints = 3
  /\ report.covered_endpoints = 1
  /\ ShownPercentage("html", output) = 3300
  /\ ShownPercentage("console", format_console(report, operation_tags)) = 3333

JsonRendered == Rendered /\ format = "json"

\* C17: parsing the output of format_json gives a summary whose
\* total_endpoints, covered_endpoints and uncovered_endpoints are the report's,
\* and covered_operations and uncovered_operations lists as long as those
\* counts say.
C17_JsonRoundTrip ==
  JsonRendered =>
    LET parsed == json_loads(output)
    IN  /\ parsed.summary.total_endpoints = report.total_endpoints
        /\ parsed.summary.covered_endpoints = report.covered_endpoints
        /\ parsed.summary.uncovered_endpoints = report.uncovered_endpoints
        /\ Len(parsed.covered_operations) = parsed.summary.covered_endpoints
        /\ Len(parsed.uncovered_operations) = parsed.summary.uncovered_endpoints

\* A JSON report with covered and uncovered operations has been rendered.
C17_Witness ==
  /\ JsonRendered
  /\ LET parsed == json_loads(output)
     IN  /\ Len(parsed.covered_operations) = 2
         /\ Len(parsed.uncovered_operations) = 1
         /\ parsed.summary.total_endpoints = 3

\* C18: in the JSON document every covered operation of the report appears,
\* in report order and with all its fields, with a tested_in_files list equal
\* to the whole mapping entry of its operation_id, repetitions kept; every
\* uncovered operation appears in report order; nothing is cut off.
C18_JsonIsComplete ==
  JsonRendered =>
    LET parsed == json_loads(output)
    IN  /\ DOMAIN parsed.covered_operations = DOMAIN report.covered_operations
        /\ \A i \in DOMAIN report.covered_operations :
             LET op == report.covered_operations[i]
                 d  == parsed.covered_operations[i]
             IN  /\ d.operation_id = op.operation_id
                 /\ d.path = op.path
                 /\ d.method = op.method
                 /\ d.summary = op.summary
                 /\ d.tags = op.tags
                 /\ d.tested_in_files = operation_tags[op.operation_id]
        /\ parsed.uncovered_operations = report.uncovered_operations

\* A JSON report lists a covered operation tagged in seven places, some of
\* them the same file, next to another covered and an uncovered operation.
C18_Witness ==
  /\ JsonRendered
  /\ Len(report.covered_operations) >= 2
  /\ Len(report.uncovered_operations) >= 1
  /\ LET covered == json_loads(output).covered_operations
     IN  \E i \in DOMAIN covered :
           /\ Len(covered[i].tested_in_files) = 7
           /\ covered[i].tested_in_files[1] = covered[i].tested_in_files[2]

(***************************************************************************)
(* main (SpecMain)                                                         *)
(***************************************************************************)

NothingEmitted == stdout = <<>> /\ written = <<>>

\* Every document printed or written is this one.
AllEmittedAre(doc) ==
  /\ \A i \in DOMAIN stdout : stdout[i] = doc
  /\ \A i \in DOMAIN written : written[i].document = doc

\* C19: a report is written, on stdout or to a file, only after the schema
\* was loaded, the operations extracted, the features scanned and the report
\* analyzed, and then whole; when the schema file is missing or is not JSON
\* the process exits with code 1 and nothing is written to stdout or a file.
C19_NothingBeforeTheReport ==
  /\ ~NothingEmitted =>
       /\ step = "done"
       /\ exit_code = "0"
       /\ schema.file = "ok"
       /\ operations = extract_operations(schema.document)
       /\ operation_tags = extract_operation_tags(features_dir, FeaturesPath)
       /\ report = analyze(operations, operation_tags)
       /\ AllEmittedAre(output)
       /\ output = (IF args.save THEN format_html(report, operation_tags)
                    ELSE Render(args.format, report, operation_tags))
  /\ (schema.file # "ok" /\ step # "start") =>
       /\ step = "exited"
       /\ exit_code = "1"
       /\ NothingEmitted
  /\ exit_code = "1" => schema.file # "ok" /\ NothingEmitted

\* A run asked to archive its report found a schema file that is not JSON
\* and has exited: the reports directory exists, no report does.
C19_Witness ==
  /\ schema.file = "invalid"
  /\ args.save
  /\ step = "exited"
  /\ exit_code = "1"
  /\ created = {"reports"}
  /\ NothingEmitted

\* The files written, the dated archive copy set apart.
FilesWritten == {written[i].path : i \in DOMAIN written}

\* The statement of C20 as written: a successful run produces one document
\* for one destination, stdout when the format is console and neither --output
\* nor --save is given, otherwise a file and nothing on stdout; with --save a
\* dated copy goes to reports/api_archive as well.
C20_AsStated ==
  step = "done" =>
    /\ exit_code = "0"
    /\ IF args.format = "console" /\ args.output = "none" /\ ~args.save
       THEN Len(stdout) = 1 /\ written = <<>>
       ELSE /\ stdout = <<>>
            /\ Cardinality(FilesWritten \ {ArchivePath(clock)}) = 1
    /\ args.save <=> ArchivePath(clock) \in FilesWritten

\* The statement of C21 as written: a run without --format renders its
\* report in the console format, the default the help text of the flag names.
C21_AsStated ==
  (step = "formatted" /\ argv.format = "absent") =>
    /\ format = "console"
    /\ output = format_console(report, operation_tags)

RowKeys(doc, table) ==
  LET rows == SelectSeq(doc, LAMBDA l : l.line = table)
  IN  [i \in DOMAIN rows |-> rows[i].key]

\* The position of key k in a bucket map.
KeyPosition(stats, k) == CHOOSE i \in DOMAIN stats : stats[i].key = k

\* Rows list every bucket of stats once.
ListsEveryBucket(rows, stats) ==
  /\ Len(rows) = Len(stats)
  /\ \A i \in DOMAIN stats : \E r \in DOMAIN rows : rows[r] = stats[i].key

\* x < y for two percentages.
LessPct(x, y) == x[1] * y[2] < y[1] * x[2]

\* C23: in the console, HTML and Markdown documents the rows of the tag table
\* come by bucket percentage descending, tags of equal percentage in the key
\* order of coverage_by_tag, and the rows of the method table by method name
\* ascending; the three documents of one report list both in the same order.
C23_TableOrder ==
  (Rendered /\ format # "json") =>
    LET tags    == RowKeys(output, "tag")
        methods == RowKeys(output, "method")
        by_tag  == report.coverage_by_tag
        Pct(k)  == by_tag[KeyPosition(by_tag, k)].percentage
    IN  /\ ListsEveryBucket(tags, by_tag)
        /\ ListsEveryBucket(methods, report.coverage_by_method)
        /\ \A i, j \in DOMAIN tags :
             i < j =>
               /\ ~LessPct(Pct(tags[i]), Pct(tags[j]))
               /\ Pct(tags[i]) = Pct(tags[j]) =>
                    KeyPosition(by_tag, tags[i]) < KeyPosition(by_tag, tags[j])
        /\ \A i, j \in DOMAIN methods : i < j => StrLess(methods[i], methods[j])
        /\ LET console  == ConsoleDoc
               html     == HtmlDoc
               markdown == MarkdownDoc
           IN  /\ RowKeys(console, "tag") = tags
               /\ RowKeys(html, "tag") = tags
               /\ RowKeys(markdown, "tag") = tags
               /\ RowKeys(console, "method") = methods
               /\ RowKeys(html, "method") = methods
               /\ RowKeys(markdown, "method") = methods

\* An HTML document lists tag y above tag x, both fully covered and in that
\* key order in the report, and GET above POST, which the report holds the
\* other way round.
C23_Witness ==
  /\ Rendered
  /\ format = "html"
  /\ RowKeys(output, "tag") = <<"y", "x">>
  /\ report.coverage_by_tag[1].percentage = report.coverage_by_tag[2].percentage
  /\ RowKeys(output, "method") = <<"GET", "POST">>
  /\ report.coverage_by_method[1].key = "POST"

\* The lines of one kind of a document, top to bottom.
LinesOf(doc, kind) == SelectSeq(doc, LAMBDA l : l.line = kind)

\* What the console's uncovered table shows of an operation.
UncoveredLine(op) ==
  [line |-> "uncovered", tag_prefix |-> IF op.tags = <<>> THEN "" ELSE op.tags[1],
   operation_id |-> op.operation_id, method |-> op.method, path |-> op.path]

\* How many entries of a sequence equal x.
TimesIn(seq, x) == Cardinality({i \in DOMAIN seq : seq[i] = x})

\* C24: the console's uncovered table has one line for every uncovered
\* operation of the report and no other, and its lines come ascending by
\* (first tag, or the empty string without tags; then operation_id), hence
\* the untagged operations first.
C24_UncoveredTable ==
  (Rendered /\ format = "console") =>
    LET rows == LinesOf(output, "uncovered")
        ops  == report.uncovered_operations
        due  == [i \in DOMAIN ops |-> UncoveredLine(ops[i])]
    IN  /\ Len(rows) = Len(ops)
        /\ \A i \in DOMAIN due : TimesIn(rows, due[i]) = TimesIn(due, due[i])
        /\ \A i, j \in DOMAIN rows :
             i < j =>
               /\ ~StrLess(rows[j].tag_prefix, rows[i].tag_prefix)
               /\ rows[j].tag_prefix = rows[i].tag_prefix =>
                    ~StrLess(rows[j].operation_id, rows[i].operation_id)
               /\ rows[j].tag_prefix = "" => rows[i].tag_prefix = ""

\* The console lists an untagged operation first that the report holds after
\* a tagged one, and under one tag postX after getX, held the other way round.
C24_Witness ==
  /\ Rendered
  /\ format = "console"
  /\ LET rows == LinesOf(output, "uncovered")
         ops  == report.uncovered_operations
     IN  /\ Len(rows) = 3
         /\ rows[1].tag_prefix = ""
         /\ ops[1].tags # <<>>
         /\ rows[2].tag_prefix = rows[3].tag_prefix
         /\ rows[2].operation_id = "getX"
         /\ rows[3].operation_id = "postX"
         /\ ops[1].operation_id = "postX"

\* The positions of the lines of one kind in a document, top to bottom.
RECURSIVE PositionsFrom(_, _, _)
PositionsFrom(doc, kind, p) ==
  IF p > Len(doc) THEN <<>>
  ELSE (IF doc[p].line = kind THEN <<p>> ELSE <<>>) \o PositionsFrom(doc, kind, p + 1)

\* The last line of the entry that starts at line p: p and the file lines
\* that follow it directly.
EntryEnd(doc, p) ==
  CHOOSE q \in p..Len(doc) :
    /\ \A k \in (p + 1)..q : doc[k].line = "file"
    /\ q = Len(doc) \/ doc[q + 1].line # "file"

\* The files listed under the entry that starts at line p.
EntryFiles(doc, p) == [k \in 1..(EntryEnd(doc, p) - p) |-> doc[p + k].file]

\* What the covered listing shows of an operation.
CoveredLine(op) ==
  [line |-> "covered", operation_id |-> op.operation_id,
   method |-> op.method, path |-> op.path]

Min(a, b) == IF a < b THEN a ELSE b

\* The console's covered listing shows the first min(20, n) of the n covered
\* operations by operation_id ascending, under each its first three files,
\* and a closing line counting the operations left out, when n > 20.
ListingCapped(doc, rep, op_tags) ==
  LET at   == PositionsFrom(doc, "covered", 1)
      n    == Len(rep.covered_operations)
      due  == [i \in 1..n |-> CoveredLine(rep.covered_operations[i])]
      rows == [i \in DOMAIN at |-> doc[at[i]]]
  IN  /\ Len(rows) = Min(20, n)
      /\ \A i, j \in DOMAIN rows :
           i < j => ~StrLess(rows[j].operation_id, rows[i].operation_id)
      /\ \A i \in DOMAIN rows : TimesIn(rows, rows[i]) <= TimesIn(due, rows[i])
      /\ \A i \in DOMAIN due :
           (rows # <<>> /\ StrLess(due[i].operation_id, rows[Len(rows)].operation_id))
             => TimesIn(rows, due[i]) = TimesIn(due, due[i])
      /\ \A i \in DOMAIN rows :
           LET files == IF rows[i].operation_id \in DOMAIN op_tags
                        THEN op_tags[rows[i].operation_id] ELSE <<>>
           IN  EntryFiles(doc, at[i]) = SubSeq(files, 1, Min(3, Len(files)))
      /\ IF n > 20
         THEN /\ doc[Len(doc)] = [line |-> "and more", n |-> n - 20]
              /\ Len(LinesOf(doc, "and more")) = 1
         ELSE \A p \in DOMAIN doc : doc[p].line # "and more"

\* Every shown entry with more than three files closes with a line counting
\* the files left out.
FileSuffixes(doc, op_tags) ==
  LET at == PositionsFrom(doc, "covered", 1)
  IN  \A i \in DOMAIN at :
        LET k == IF doc[at[i]].operation_id \in DOMAIN op_tags
                 THEN Len(op_tags[doc[at[i]].operation_id]) ELSE 0
            q == EntryEnd(doc, at[i])
        IN  k > 3 => /\ q < Len(doc)
                     /\ doc[q + 1].line = "and more"
                     /\ doc[q + 1].n = k - 3

\* C25 as stated: the console's covered listing shows the first min(20, n)
\* covered operations by operation_id ascending with at most the first three
\* files of each, a closing count of the operations left out when n > 20, and
\* under an entry with more than three files a count of the files left out.
C25_AsStated ==
  (Rendered /\ format = "console") =>
    /\ ListingCapped(output, report, operation_tags)
    /\ FileSuffixes(output, operation_tags)

\* C25, amended: the console's covered listing shows the first min(20, n)
\* covered operations by operation_id ascending with the first three files of
\* each and nothing about the files beyond them, and closes with a count of
\* the operations left out exactly when n > 20.
C25_ListingCapped ==
  (Rendered /\ format = "console") => ListingCapped(output, report, operation_tags)

\* More than twenty operations are covered, one of them in seven files.
C25_Witness ==
  /\ Rendered
  /\ format = "console"
  /\ Len(report.covered_operations) > 20
  /\ \E i \in DOMAIN report.covered_operations :
       Len(FilesFor(operation_tags, report.covered_operations[i])) > 3

\* The row the HTML page owes an uncovered operation.
UncoveredRow(op) ==
  [line |-> "uncovered", operation_id |-> op.operation_id,
   method |-> op.method, path |-> op.path, tags |-> op.tags]

\* The row the HTML page owes a covered operation named in the given files:
\* the first five of them, and the number of the others when there are any.
CoveredRow(op, files) ==
  [line |-> "covered", operation_id |-> op.operation_id,
   method |-> op.method, path |-> op.path,
   files |-> SubSeq(files, 1, Min(5, Len(files))),
   more |-> IF Len(files) > 5 THEN Len(files) - 5 ELSE 0]

\* rows are the due rows, each as often as it is due, by operation_id ascending.
RowsById(rows, due) ==
  /\ Len(rows) = Len(due)
  /\ \A i \in DOMAIN due : TimesIn(rows, due[i]) = TimesIn(due, due[i])
  /\ \A i, j \in DOMAIN rows :
       i < j => ~StrLess(rows[j].operation_id, rows[i].operation_id)

\* C26: the HTML page has one row for every uncovered and one for every
\* covered operation, however many, each table by operation_id ascending; a
\* covered row shows the first min(5, k) of the operation's k files and counts
\* the k - 5 others exactly when k > 5.
C26_HtmlRows ==
  (Rendered /\ format = "html") =>
    LET uncovered == report.uncovered_operations
        covered   == report.covered_operations
    IN  /\ RowsById(LinesOf(output, "uncovered"),
                    [i \in DOMAIN uncovered |-> UncoveredRow(uncovered[i])])
        /\ RowsById(LinesOf(output, "covered"),
                    [i \in DOMAIN covered |->
                       CoveredRow(covered[i],
                                  IF covered[i].operation_id \in DOMAIN operation_tags
                                  THEN operation_tags[covered[i].operation_id]
                                  ELSE <<>>)])

\* A page with more than twenty covered rows, some counting two more files
\* than the five shown and some showing all of theirs, and uncovered rows too.
C26_Witness ==
  /\ Rendered
  /\ format = "html"
  /\ LET rows == LinesOf(output, "covered")
     IN  /\ Len(rows) > 20
         /\ \E i \in DOMAIN rows : Len(rows[i].files) = 5 /\ rows[i].more = 2
         /\ \E i \in DOMAIN rows : rows[i].files # <<>> /\ rows[i].more = 0
         /\ rows[1].operation_id # report.covered_operations[1].operation_id
  /\ LinesOf(output, "uncovered") # <<>>

\* Every bucket of a map counts at least one operation and covers between
\* none and all of those it counts, and no key has two buckets.
BucketsPopulated(stats) ==
  /\ \A i \in DOMAIN stats :
       /\ stats[i].total >= 1
       /\ 0 <= stats[i].covered
       /\ stats[i].covered <= stats[i].total
  /\ \A i, j \in DOMAIN stats : stats[i].key = stats[j].key => i = j

\* C27: in a report every bucket of coverage_by_tag and of coverage_by_method
\* has total >= 1 and 0 <= covered <= total, so the branch for a total of zero
\* in the percentage loops is never taken; the keys of coverage_by_method are
\* the methods of the operations and those of coverage_by_tag the tags that
\* occur on them.
C27_BucketsPopulated ==
  Analyzed =>
    /\ BucketsPopulated(report.coverage_by_tag)
    /\ BucketsPopulated(report.coverage_by_method)
    /\ BucketKeys(report.coverage_by_method)
         = {operations[i].method : i \in DOMAIN operations}
    /\ BucketKeys(report.coverage_by_tag)
         = UNION {{operations[i].tags[j] : j \in DOMAIN operations[i].tags} :
                    i \in DOMAIN operations}

\* A report on tagged and untagged operations with a tag bucket that covers
\* nothing and a method bucket that covers all it counts.
C27_Witness ==
  /\ Analyzed
  /\ \E i \in DOMAIN operations : operations[i].tags = <<>>
  /\ BucketKeys(report.coverage_by_tag) = {"x", "y"}
  /\ \E i \in DOMAIN report.coverage_by_tag : report.coverage_by_tag[i].covered = 0
  /\ \E i \in DOMAIN report.coverage_by_method :
       report.coverage_by_method[i].covered = report.coverage_by_method[i].total
  /\ Len(report.coverage_by_method) = 2

\* The mappings a second analyzer may be given: any of the three identifiers
\* as keys, each with its files or with none.
OtherMappings ==
  UNION { [K -> {<<>>, FilesOf["postX"]}] : K \in SUBSET {"getX", "postX", "other"} }

\* Two mappings have the same of the operations' identifiers as keys.
SameKeysOf(ops, m1, m2) ==
  \A i \in DOMAIN ops :
    (ops[i].operation_id \in DOMAIN m1) <=> (ops[i].operation_id \in DOMAIN m2)

\* C28: the report depends on the mapping only through which operation_ids of
\* the list are keys of it: an analyzer given the same operations and any
\* mapping with the same of their identifiers as keys, whatever its file lists
\* and its other keys, returns the same report; and operations that share an
\* operation_id are on the same side of the report.
C28_OnlyKeyMembership ==
  Analyzed =>
    /\ \A other \in OtherMappings :
         SameKeysOf(operations, operation_tags, other)
           => analyze(operations, other) = report
    /\ \A i, j \in DOMAIN operations :
         operations[i].operation_id = operations[j].operation_id
           => (Occurrences(operations[i], report.covered_operations) > 0
                 <=> Occurrences(operations[j], report.covered_operations) > 0)

\* A report with a covered and an uncovered operation, two covered ones under
\* one identifier, and a second mapping with the same of their identifiers as
\* keys but another key set and no file for the covered identifier.
C28_Witness ==
  /\ Analyzed
  /\ report.uncovered_operations # <<>>
  /\ \E i, j \in DOMAIN operations :
       /\ operations[i] # operations[j]
       /\ operations[i].operation_id = operations[j].operation_id
       /\ Occurrences(operations[i], report.covered_operations) > 0
  /\ \E other \in OtherMappings :
       /\ SameKeysOf(operations, operation_tags, other)
       /\ DOMAIN other # DOMAIN operation_tags
       /\ \E k \in DOMAIN other \cap DOMAIN operation_tags :
            other[k] = <<>> /\ operation_tags[k] # <<>>

\* C29: a run with --save emits the HTML rendering of its report everywhere:
\* in reports/api_coverage.html, in the dated copy, in the --output file when
\* one is named, and otherwise on stdout (format console) or in the file named
\* after the format; a run without --save emits the rendering in the format
\* selected, in the --output file or else on stdout or in the format's file.
C29_SaveEmitsHtml ==
  step = "done" =>
    LET doc == IF args.save
               THEN format_html(report, operation_tags)
               ELSE Render(args.format, report, operation_tags)
        last == IF args.output # "none" THEN {args.output}
                ELSE IF args.format = "console" THEN {}
                ELSE IF args.format = "html" THEN {ReportPath}
                ELSE {AutoNamedPath(args.format)}
    IN  /\ AllEmittedAre(doc)
        /\ FilesWritten = last \cup (IF args.save THEN {ReportPath, ArchivePath(clock)} ELSE {})
        /\ Len(stdout) = (IF args.output = "none" /\ args.format = "console" THEN 1 ELSE 0)

\* A run with --save and --format markdown has written the HTML page to three
\* files, the one named after the markdown format among them.
C29_Witness ==
  /\ step = "done"
  /\ args.save
  /\ args.format = "markdown"
  /\ args.output = "none"
  /\ Len(written) = 3
  /\ \E i \in DOMAIN written :
       /\ written[i].path = AutoNamedPath("markdown")
       /\ written[i].document = format_html(report, operation_tags)
  /\ report.total_endpoints > 0

\* The characters of the operationIds of the scanned schema.
IdChars(id) ==
  CASE id = "getX" -> GetX
    [] id = "postX" -> PostX
    [] id = "other" -> <<"o", "t", "h", "e", "r">>
    [] id = "postX-getX" -> PostX \o <<"-">> \o GetX

Letters ==
  {"a", "b", "c", "d", "e", "f", "g", "h", "i", "j", "k", "l", "m",
   "n", "o", "p", "q", "r", "s", "t", "u", "v", "w", "x", "y", "z",
   "A", "B", "C", "D", "E", "F", "G", "H", "I", "J", "K", "L", "M",
   "N", "O", "P", "Q", "R", "S", "T", "U", "V", "W", "X", "Y", "Z"}

IsWordChar(c) == c \in Letters \/ c \in {DigitChars[d] : d \in DOMAIN DigitChars} \/ c = "_"

\* The marker stands at position k of a content, whatever follows it.
MarkerAt(content, k) ==
  /\ k + Len(Marker) - 1 <= Len(content)
  /\ \A m \in DOMAIN Marker : content[k + m - 1] = Marker[m]

\* The longest run of word characters that starts at position p.
RunFrom(content, p) ==
  LET q == CHOOSE e \in (p - 1)..Len(content) :
             /\ \A c \in p..e : IsWordChar(content[c])
             /\ e = Len(content) \/ ~IsWordChar(content[e + 1])
  IN  [c \in 1..(q - p + 1) |-> content[p + c - 1]]

\* The runs after the markers of the i-th file, empty ones included.
RunsOf(i) ==
  LET content == features_dir[i].content
      at      == {k \in DOMAIN content : MarkerAt(content, k)}
  IN  [k \in at |-> RunFrom(content, k + Len(Marker))]

\* How many times the i-th file is listed, over all keys.
ListedInAll(i) ==
  SumOfSet(DOMAIN operation_tags, [id \in DOMAIN operation_tags |-> TimesListed(id, i)])

\* C30: for every occurrence of the marker in a readable file the scan
\* registers the file under the longest run of word characters (letters,
\* digits, underscore) that follows the colon, and registers nothing when no
\* word character follows; so every key of the mapping is made of word
\* characters only, and an operation whose operation_id holds any other
\* character is never reported covered.
C30_KeysAreWords ==
  Scanned =>
    /\ \A i \in ReadableFiles :
         LET runs == RunsOf(i)
         IN  /\ \A k \in DOMAIN runs :
                  runs[k] # <<>> =>
                    /\ Join(runs[k]) \in DOMAIN operation_tags
                    /\ TimesListed(Join(runs[k]), i)
                         = Cardinality({m \in DOMAIN runs : runs[m] = runs[k]})
             /\ ListedInAll(i) = Cardinality({k \in DOMAIN runs : runs[k] # <<>>})
    /\ \A id \in DOMAIN operation_tags :
         \E i \in ReadableFiles :
           \E k \in DOMAIN RunsOf(i) :
             /\ Join(RunsOf(i)[k]) = id
             /\ RunsOf(i)[k] # <<>>
             /\ \A c \in DOMAIN RunsOf(i)[k] : IsWordChar(RunsOf(i)[k][c])
    /\ Analyzed =>
         \A n \in DOMAIN operations :
           (\E c \in DOMAIN IdChars(operations[n].operation_id) :
              ~IsWordChar(IdChars(operations[n].operation_id)[c]))
             => /\ Occurrences(operations[n], report.covered_operations) = 0
                /\ Occurrences(operations[n], report.uncovered_operations) = 1

\* Two readable files, one with the marker before "postX-getX" and one with
\* a blank after the marker's colon, were scanned and reported on: postX is
\* the only key, and the operation postX-getX is not covered.
C30_Witness ==
  /\ step = "scanned"
  /\ pc = "analyzed"
  /\ ReadableFiles = {1, 2}
  /\ features_dir[1].content = Marker \o PostX \o <<"-">> \o GetX
  /\ features_dir[2].content = Marker \o <<" ">> \o GetX
  /\ DOMAIN operation_tags = {"postX"}
  /\ report.covered_endpoints = 1

=========================================================================
